---- MODULE Spec2Model ----
(***************************************************************************)
(* Model of the rasc telemetry core: the Telegram alert evaluator          *)
(* (telegram_notifier.py), the latest-reading cache, the configuration     *)
(* endpoint, the sampling loop and the history and statistics queries      *)
(* (app.py, services/storage.py).                                          *)
(*                                                                         *)
(* Conventions.  A Python value that may be None is a tuple: << >> is      *)
(* None and <<v>> carries v.  A Python str is a tuple of one-character     *)
(* strings.  A dict is a function whose DOMAIN is its key set.  Time is    *)
(* counted in minutes.                                                     *)
(***************************************************************************)
EXTENDS Integers, Sequences, FiniteSets, TLC

VARIABLES
    now,             \* the wall clock read by now_taiwan(), in minutes
    file,            \* content of telegram_config.json
    mtime,           \* st_mtime of telegram_config.json, None when it is missing
    cache,           \* _CONFIG_CACHE
    cacheMtime,      \* _CONFIG_MTIME
    latest_reading,  \* app.latest_reading
    lastSend,        \* per metric: the newest Notifier invocation that named it
    call,            \* what the most recent operation did and returned
    readings,        \* the rows of the readings table, in insertion order
    reply,           \* what the most recent query or socket event returned
    worker,          \* position and locals of the sampling thread
    monitoring_active, \* app.monitoring_active, the loop's running flag
    request,         \* position and locals of a request thread in flight
    parked           \* the sampling threads in the loop besides worker

vars == <<now, file, mtime, cache, cacheMtime, latest_reading, lastSend, call,
          readings, reply, worker, monitoring_active, request, parked>>

----------------------------------------------------------------------------
(* Bounds of the model *)

MaxTime == 31

----------------------------------------------------------------------------
(* Python values *)

None == << >>

Some(v) == <<v>>

IsNone(x) == x = None

Val(x) == x[1]

EmptyStr == << >>

\* JSON null where it has to differ from an empty dict
JNull == [t |-> "null"]

Get(d, k, dflt) == IF k \in DOMAIN d THEN d[k] ELSE dflt

\* str.strip(): drop leading and trailing blanks
RECURSIVE LStrip(_)
LStrip(s) == IF s # << >> /\ Head(s) = " " THEN LStrip(Tail(s)) ELSE s

RECURSIVE RStrip(_)
RStrip(s) == IF s # << >> /\ s[Len(s)] = " " THEN RStrip(SubSeq(s, 1, Len(s) - 1)) ELSE s

Strip(s) == RStrip(LStrip(s))

\* datetime.isoformat() and datetime.fromisoformat()
IsoFormat(t) == [iso |-> t]

FromIsoFormat(s) == s.iso

----------------------------------------------------------------------------
(* telegram_notifier.py: configuration *)

Metrics == {"co2_ppm", "temperature_c", "humidity"}

\* the order in which check_and_notify examines the metrics
MetricOrder == <<"co2_ppm", "temperature_c", "humidity">>

DefaultCooldown == 30

DefaultThresholds ==
    [co2_ppm       |-> [enabled |-> FALSE, min |-> None,     max |-> Some(1000),
                        cooldown_minutes |-> DefaultCooldown],
     temperature_c |-> [enabled |-> FALSE, min |-> Some(10), max |-> Some(30),
                        cooldown_minutes |-> DefaultCooldown],
     humidity      |-> [enabled |-> FALSE, min |-> Some(30), max |-> Some(70),
                        cooldown_minutes |-> DefaultCooldown]]

DEFAULT_CONFIG ==
    [enabled |-> FALSE, bot_token |-> EmptyStr, chat_id |-> EmptyStr,
     thresholds |-> DefaultThresholds, last_notification |-> << >>]

\* dict.update on the top level, then per metric the missing sub-keys
MergeThreshold(th, key) ==
    IF key \notin DOMAIN th
    THEN DefaultThresholds[key]
    ELSE [subkey \in DOMAIN DefaultThresholds[key] \cup DOMAIN th[key] |->
            IF subkey \in DOMAIN th[key] THEN th[key][subkey]
            ELSE DefaultThresholds[key][subkey]]

_merge_with_default_config(config) ==
    LET merged == [k \in DOMAIN DEFAULT_CONFIG \cup DOMAIN config |->
                      IF k \in DOMAIN config THEN config[k] ELSE DEFAULT_CONFIG[k]]
    IN  [merged EXCEPT !.thresholds =
            [key \in DOMAIN merged.thresholds \cup Metrics |->
                IF key \in Metrics THEN MergeThreshold(merged.thresholds, key)
                ELSE merged.thresholds[key]]]

\* the config file: missing, a complete JSON document, or a truncated one
Missing == [kind |-> "missing"]

Truncated == [kind |-> "truncated"]

JsonDump(config) == [kind |-> "json", body |-> config]

JsonLoads(f) == IF f.kind = "json" THEN [ok |-> TRUE, body |-> f.body] ELSE [ok |-> FALSE]

\* the file and the module globals, as one value the helpers transform
Disk == [file |-> file, mtime |-> mtime, cache |-> cache, cacheMtime |-> cacheMtime]

\* outcomes of writing the file: written; open() raised; the write raised
\* after open(..., 'w') had truncated the file
SaveOutcomes == {"ok", "open_failed", "write_failed"}

save_config(config, d, t, outcome) ==
    CASE outcome = "ok" ->
            [ok |-> TRUE,
             disk |-> [file |-> JsonDump(config), mtime |-> Some(t),
                       cache |-> Some(_merge_with_default_config(config)),
                       cacheMtime |-> Some(t)]]
      [] outcome = "open_failed" ->
            [ok |-> FALSE, disk |-> d]
      [] OTHER ->
            [ok |-> FALSE, disk |-> [d EXCEPT !.file = Truncated, !.mtime = Some(t)]]

load_config(d, t, outcome) ==
    IF d.file.kind # "missing"
    THEN IF d.cache # None /\ d.cacheMtime = d.mtime
         THEN [config |-> Val(d.cache), disk |-> d]
         ELSE LET parsed == JsonLoads(d.file)
              IN  IF parsed.ok
                  THEN LET merged_config == _merge_with_default_config(parsed.body)
                       IN  [config |-> merged_config,
                            disk |-> [d EXCEPT !.cache = Some(merged_config),
                                               !.cacheMtime = d.mtime]]
                  ELSE [config |-> DEFAULT_CONFIG, disk |-> d]
    ELSE [config |-> DEFAULT_CONFIG,
          disk |-> save_config(DEFAULT_CONFIG, d, t, outcome).disk]

----------------------------------------------------------------------------
(* telegram_notifier.py: the Notifier *)

\* delivered is the answer of the Telegram API; posted says whether the
\* request was made at all
send_telegram_message(bot_token, chat_id, message, delivered) ==
    IF bot_token = EmptyStr \/ chat_id = EmptyStr
    THEN [success |-> FALSE, posted |-> FALSE]
    ELSE [success |-> delivered, posted |-> TRUE]

----------------------------------------------------------------------------
(* telegram_notifier.py: evaluation *)

\* variant: a value on the bound counts as outside it
check_threshold_inclusive(sensor_type, value, config) ==
    IF ~Get(config, "enabled", FALSE)
    THEN [hit |-> FALSE, msg |-> None]
    ELSE LET threshold_config == Get(config.thresholds, sensor_type, << >>)
             min_val == Get(threshold_config, "min", None)
             max_val == Get(threshold_config, "max", None)
         IN  IF ~Get(threshold_config, "enabled", FALSE)
             THEN [hit |-> FALSE, msg |-> None]
             ELSE IF value = None
             THEN [hit |-> FALSE, msg |-> None]
             ELSE IF min_val # None /\ Val(value) <= Val(min_val)
             THEN [hit |-> TRUE,
                   msg |-> Some([sensor |-> sensor_type, kind |-> "below_min",
                                 bound |-> Val(min_val), value |-> Val(value)])]
             ELSE IF max_val # None /\ Val(value) >= Val(max_val)
             THEN [hit |-> TRUE,
                   msg |-> Some([sensor |-> sensor_type, kind |-> "above_max",
                                 bound |-> Val(max_val), value |-> Val(value)])]
             ELSE [hit |-> FALSE, msg |-> None]

\* variant: the per-metric enabled flag is not consulted
check_threshold_unflagged(sensor_type, value, config) ==
    IF ~Get(config, "enabled", FALSE)
    THEN [hit |-> FALSE, msg |-> None]
    ELSE LET threshold_config == Get(config.thresholds, sensor_type, << >>)
             min_val == Get(threshold_config, "min", None)
             max_val == Get(threshold_config, "max", None)
         IN  IF value = None
             THEN [hit |-> FALSE, msg |-> None]
             ELSE IF min_val # None /\ Val(value) < Val(min_val)
             THEN [hit |-> TRUE,
                   msg |-> Some([sensor |-> sensor_type, kind |-> "below_min",
                                 bound |-> Val(min_val), value |-> Val(value)])]
             ELSE IF max_val # None /\ Val(value) > Val(max_val)
             THEN [hit |-> TRUE,
                   msg |-> Some([sensor |-> sensor_type, kind |-> "above_max",
                                 bound |-> Val(max_val), value |-> Val(value)])]
             ELSE [hit |-> FALSE, msg |-> None]

check_threshold(sensor_type, value, config) ==
    IF ~Get(config, "enabled", FALSE)
    THEN [hit |-> FALSE, msg |-> None]
    ELSE LET threshold_config == Get(config.thresholds, sensor_type, << >>)
             min_val == Get(threshold_config, "min", None)
             max_val == Get(threshold_config, "max", None)
         IN  IF ~Get(threshold_config, "enabled", FALSE)
             THEN [hit |-> FALSE, msg |-> None]
             ELSE IF value = None
             THEN [hit |-> FALSE, msg |-> None]
             ELSE IF min_val # None /\ Val(value) < Val(min_val)
             THEN [hit |-> TRUE,
                   msg |-> Some([sensor |-> sensor_type, kind |-> "below_min",
                                 bound |-> Val(min_val), value |-> Val(value)])]
             ELSE IF max_val # None /\ Val(value) > Val(max_val)
             THEN [hit |-> TRUE,
                   msg |-> Some([sensor |-> sensor_type, kind |-> "above_max",
                                 bound |-> Val(max_val), value |-> Val(value)])]
             ELSE [hit |-> FALSE, msg |-> None]

\* variant: the cooldown has to be exceeded, not just reached
should_send_notification_strict(sensor_type, config, t) ==
    IF ~Get(config, "enabled", FALSE)
    THEN FALSE
    ELSE LET threshold_config == Get(config.thresholds, sensor_type, << >>)
             cooldown_minutes == Get(threshold_config, "cooldown_minutes", DefaultCooldown)
             last_notification == Get(config, "last_notification", << >>)
         IN  IF sensor_type \notin DOMAIN last_notification
             THEN TRUE
             ELSE LET elapsed == t - FromIsoFormat(last_notification[sensor_type])
                  IN  ~(elapsed <= cooldown_minutes)

should_send_notification(sensor_type, config, t) ==
    IF ~Get(config, "enabled", FALSE)
    THEN FALSE
    ELSE LET threshold_config == Get(config.thresholds, sensor_type, << >>)
             cooldown_minutes == Get(threshold_config, "cooldown_minutes", DefaultCooldown)
             last_notification == Get(config, "last_notification", << >>)
         IN  IF sensor_type \notin DOMAIN last_notification
             THEN TRUE
             ELSE LET elapsed == t - FromIsoFormat(last_notification[sensor_type])
                  IN  ~(elapsed < cooldown_minutes)

\* variant: the map is rebuilt from the notified sensors alone
StampLastNotifications_rebuilt(sensor_types, config, t) ==
    [k \in DOMAIN config \cup {"last_notification"} |->
        IF k = "last_notification" THEN [m \in sensor_types |-> IsoFormat(t)]
        ELSE config[k]]

\* variant: every metric is stamped, not the notified ones alone
StampLastNotifications_all(sensor_types, config, t) ==
    [k \in DOMAIN config \cup {"last_notification"} |->
        IF k = "last_notification" THEN [m \in Metrics |-> IsoFormat(t)]
        ELSE config[k]]

\* config["last_notification"] after the loop of update_last_notifications
StampLastNotifications(sensor_types, config, t) ==
    LET old == Get(config, "last_notification", << >>)
        stamped == [k \in DOMAIN old \cup sensor_types |->
                       IF k \in sensor_types THEN IsoFormat(t) ELSE old[k]]
    IN  [k \in DOMAIN config \cup {"last_notification"} |->
            IF k = "last_notification" THEN stamped ELSE config[k]]

\* variant: the timestamps reach the cache but not the file
update_last_notifications_cached(sensor_types, config, d, t, outcome) ==
    [ok |-> TRUE,
     disk |-> [d EXCEPT !.cache = Some(StampLastNotifications(sensor_types, config, t)),
                        !.cacheMtime = d.mtime]]

update_last_notifications(sensor_types, config, d, t, outcome) ==
    save_config(StampLastNotifications(sensor_types, config, t), d, t, outcome)

\* last_notification.get(sensor_type) raises AttributeError when the file
\* holds null for last_notification; should_send_notification is reached for
\* the first metric that carries a value and violates its bound
RaisesInEvaluation(p, config) ==
    /\ Get(config, "last_notification", << >>) = JNull
    /\ \E sensor_type \in Metrics :
          p[sensor_type] # None /\ check_threshold(sensor_type, p[sensor_type], config).hit

\* the notifications list built by the three "if ... is not None" blocks
RECURSIVE CollectNotifications(_, _, _, _)
CollectNotifications(i, p, config, t) ==
    IF i > Len(MetricOrder)
    THEN << >>
    ELSE LET sensor_type == MetricOrder[i]
             checked == check_threshold(sensor_type, p[sensor_type], config)
             rest == CollectNotifications(i + 1, p, config, t)
         IN  IF p[sensor_type] # None /\ checked.hit
                /\ should_send_notification(sensor_type, config, t)
             THEN <<[sensor |-> sensor_type, msg |-> Val(checked.msg)]>> \o rest
             ELSE rest

SensorsOf(notifications) == {notifications[i].sensor : i \in DOMAIN notifications}

\* variant: one message per notification
BatchMessages_each(notifications, t) ==
    [i \in DOMAIN notifications |-> [parts |-> <<notifications[i].msg>>, time |-> t]]

\* the messages handed to send_telegram_message by one call: one message that
\* lists every notification
BatchMessages(notifications, t) ==
    <<[parts |-> [i \in DOMAIN notifications |-> notifications[i].msg], time |-> t]>>

\* variant: the timestamps are kept only when the message was delivered
check_and_notify_retry(p, d, t, saveOutcome, delivered) ==
    LET loaded == load_config(d, t, saveOutcome)
        config == loaded.config
        quiet == [disk |-> loaded.disk, notifications |-> << >>, sent |-> << >>,
                  saved |-> None, results |-> << >>, raised |-> FALSE]
    IN  IF ~Get(config, "enabled", FALSE)
        THEN quiet
        ELSE IF Get(config, "bot_token", EmptyStr) = EmptyStr
                \/ Get(config, "chat_id", EmptyStr) = EmptyStr
        THEN quiet
        ELSE LET notifications == CollectNotifications(1, p, config, t)
             IN  IF notifications = << >>
                 THEN quiet
                 ELSE LET saved == update_last_notifications(
                                       SensorsOf(notifications), config,
                                       loaded.disk, t, saveOutcome)
                          sent == BatchMessages(notifications, t)
                      IN  [disk |-> IF delivered THEN saved.disk ELSE loaded.disk,
                           notifications |-> notifications,
                           sent |-> sent,
                           saved |-> IF delivered THEN Some(saved.ok) ELSE None,
                           raised |-> FALSE,
                           results |-> [i \in DOMAIN sent |->
                               send_telegram_message(config.bot_token, config.chat_id,
                                                     sent[i], delivered)]]

\* result of one call: the disk afterwards, the notifications list, the
\* messages handed to the Notifier and whether the timestamps were saved
check_and_notify(p, d, t, saveOutcome, delivered) ==
    LET loaded == load_config(d, t, saveOutcome)
        config == loaded.config
        quiet == [disk |-> loaded.disk, notifications |-> << >>, sent |-> << >>,
                  saved |-> None, results |-> << >>, raised |-> FALSE]
    IN  IF ~Get(config, "enabled", FALSE)
        THEN quiet
        ELSE IF Get(config, "bot_token", EmptyStr) = EmptyStr
                \/ Get(config, "chat_id", EmptyStr) = EmptyStr
        THEN quiet
        ELSE IF RaisesInEvaluation(p, config)
        THEN [quiet EXCEPT !.raised = TRUE]
        ELSE LET notifications == CollectNotifications(1, p, config, t)
             IN  IF notifications = << >>
                 THEN quiet
                 ELSE LET saved == update_last_notifications(
                                       SensorsOf(notifications), config,
                                       loaded.disk, t, saveOutcome)
                          sent == BatchMessages(notifications, t)
                      IN  [disk |-> saved.disk, notifications |-> notifications,
                           sent |-> sent,
                           saved |-> Some(saved.ok),
                           raised |-> FALSE,
                           results |-> [i \in DOMAIN sent |->
                               send_telegram_message(config.bot_token, config.chat_id,
                                                     sent[i], delivered)]]

----------------------------------------------------------------------------
(* app.py: the latest reading *)

SensorFields == {"co2_ppm", "temperature_c", "humidity"}

AuxFields == {"rssi", "cpu_usage_percent", "ram_usage_percent", "cpu_temp_c"}

ReadingFields == SensorFields \cup AuxFields

LatestFields == ReadingFields \cup {"timestamp"}

InitialLatest == [f \in LatestFields |-> None]

\* variant: every field is assigned, None included
MergeLatest_overwrite(latest, p, t) ==
    [f \in LatestFields |->
        IF f = "timestamp" THEN Some(IsoFormat(t)) ELSE p[f]]

\* the seven "if x is not None" assignments and the timestamp
MergeLatest(latest, p, t) ==
    [f \in LatestFields |->
        IF f = "timestamp" THEN Some(IsoFormat(t))
        ELSE IF p[f] # None THEN p[f]
        ELSE latest[f]]

TELEGRAM_AVAILABLE == TRUE

Idle == [op |-> "idle"]

\* the sampling thread between two cycles, at BleakScanner.discover
Scanning == [pc |-> "discover"]

\* the ledger of the Notifier after the messages of one call
Names(message, m) == \E j \in DOMAIN message.parts : message.parts[j].sensor = m

RecordSends(ledger, sent, results, t) ==
    [m \in Metrics |->
        IF \E i \in DOMAIN sent : Names(sent[i], m)
        THEN LET i == CHOOSE k \in DOMAIN sent :
                          Names(sent[k], m) /\ \A l \in DOMAIN sent : Names(sent[l], m) => l <= k
             IN  Some([time |-> t, ok |-> results[i].success])
        ELSE ledger[m]]

\* variant: an exception of check_and_notify leaves the function
Broadcasts_unguarded(snapshot, r) == IF r.raised THEN << >> ELSE <<snapshot>>

\* the payloads of socketio.emit('sensor_update', ...) of one call: the
\* try/except around check_and_notify lets line 312 run whatever happened
Broadcasts(snapshot, r) == <<snapshot>>

update_latest_reading(p, saveOutcome, delivered) ==
    LET merged == MergeLatest(latest_reading, p, now)
        r == IF TELEGRAM_AVAILABLE
             THEN check_and_notify([m \in Metrics |-> p[m]], Disk, now, saveOutcome, delivered)
             ELSE [disk |-> Disk, notifications |-> << >>, sent |-> << >>,
                   saved |-> None, results |-> << >>, raised |-> FALSE]
    IN  /\ latest_reading' = merged
        /\ file' = r.disk.file
        /\ mtime' = r.disk.mtime
        /\ cache' = r.disk.cache
        /\ cacheMtime' = r.disk.cacheMtime
        /\ lastSend' = RecordSends(lastSend, r.sent, r.results, now)
        /\ (r.sent = << >>) => delivered
        /\ call' = [op |-> "update_latest_reading", p |-> p, time |-> now,
                    notifications |-> r.notifications, sent |-> r.sent,
                    saved |-> r.saved, results |-> r.results,
                    raised |-> r.raised,
                    emitted |-> Broadcasts(merged, r)]
        /\ UNCHANGED <<now, readings, reply, worker,
                       monitoring_active, request, parked>>

----------------------------------------------------------------------------
(* the process and the clock *)

Restart ==
    /\ cache' = None
    /\ cacheMtime' = None
    /\ latest_reading' = InitialLatest
    /\ call' = [op |-> "restart"]
    /\ worker' = Scanning
    /\ monitoring_active' = TRUE
    /\ request' = None
    /\ parked' = << >>
    /\ UNCHANGED <<now, file, mtime, lastSend, readings, reply>>

Tick(d) ==
    /\ d > 0
    /\ now + d <= MaxTime
    /\ now' = now + d
    /\ call' = Idle
    /\ UNCHANGED <<file, mtime, cache, cacheMtime, latest_reading, lastSend,
                   readings, reply, worker, monitoring_active, request, parked>>

----------------------------------------------------------------------------
(* app.py: the configuration endpoint *)

\* a JSON scalar of the request body
JBool(b) == [t |-> "bool", v |-> b]

JNum(n) == [t |-> "num", v |-> n]

JStr(s) == [t |-> "str", v |-> s]

Digits == <<"0", "1", "2", "3", "4", "5", "6", "7", "8", "9">>

IsDigit(c) == \E d \in DOMAIN Digits : Digits[d] = c

DigitValue(c) == (CHOOSE d \in DOMAIN Digits : Digits[d] = c) - 1

IsNumeral(s) == s # << >> /\ \A i \in DOMAIN s : IsDigit(s[i])

RECURSIVE NatOf(_)
NatOf(s) == IF s = << >> THEN 0
            ELSE 10 * NatOf(SubSeq(s, 1, Len(s) - 1)) + DigitValue(s[Len(s)])

RECURSIVE NumeralOf(_)
NumeralOf(n) == IF n < 10 THEN <<Digits[n + 1]>>
                ELSE NumeralOf(n \div 10) \o <<Digits[(n % 10) + 1]>>

\* int("...") and float("...") of an integer literal; anything else raises
ParseNumber(s) ==
    LET body == Strip(s)
    IN  IF IsNumeral(body) THEN [ok |-> TRUE, v |-> NatOf(body)]
        ELSE IF body # << >> /\ Head(body) = "-" /\ IsNumeral(Tail(body))
        THEN [ok |-> TRUE, v |-> 0 - NatOf(Tail(body))]
        ELSE [ok |-> FALSE]

PyBool(j) ==
    CASE j.t = "bool" -> j.v
      [] j.t = "num" -> j.v # 0
      [] j.t = "str" -> j.v # EmptyStr
      [] OTHER -> FALSE

PyStr(j) ==
    CASE j.t = "str" -> j.v
      [] j.t = "num" -> IF j.v < 0 THEN <<"-">> \o NumeralOf(0 - j.v) ELSE NumeralOf(j.v)
      [] j.t = "bool" -> IF j.v THEN <<"T", "r", "u", "e">> ELSE <<"F", "a", "l", "s", "e">>
      [] OTHER -> <<"N", "o", "n", "e">>

\* int(x) and float(x) on the integers of the model; None raises TypeError
PyNumber(j) ==
    CASE j.t = "num" -> [ok |-> TRUE, v |-> j.v]
      [] j.t = "bool" -> [ok |-> TRUE, v |-> IF j.v THEN 1 ELSE 0]
      [] j.t = "str" -> ParseNumber(j.v)
      [] OTHER -> [ok |-> FALSE]

\* one pass of the loop body over data["thresholds"] for a known sensor
PatchThreshold(th, tc) ==
    LET newMin == IF "min" \in DOMAIN tc /\ tc.min.t # "null" THEN PyNumber(tc.min)
                  ELSE [ok |-> TRUE]
        newMax == IF "max" \in DOMAIN tc /\ tc.max.t # "null" THEN PyNumber(tc.max)
                  ELSE [ok |-> TRUE]
        newCool == IF "cooldown_minutes" \in DOMAIN tc THEN PyNumber(tc.cooldown_minutes)
                   ELSE [ok |-> TRUE]
    IN  IF ~(newMin.ok /\ newMax.ok /\ newCool.ok)
        THEN [ok |-> FALSE]
        ELSE [ok |-> TRUE,
              th |-> [subkey \in DOMAIN th |->
                CASE subkey = "enabled" /\ "enabled" \in DOMAIN tc -> PyBool(tc.enabled)
                  [] subkey = "min" /\ "min" \in DOMAIN tc ->
                        IF tc.min.t = "null" THEN None ELSE Some(newMin.v)
                  [] subkey = "max" /\ "max" \in DOMAIN tc ->
                        IF tc.max.t = "null" THEN None ELSE Some(newMax.v)
                  [] subkey = "cooldown_minutes" /\ "cooldown_minutes" \in DOMAIN tc ->
                        newCool.v
                  [] OTHER -> th[subkey]]]

\* variant: the fields in front of a raising conversion are applied and kept
ApplyPatch_partial(config, data) ==
    IF data = None
    THEN [ok |-> FALSE]
    ELSE [ok |-> TRUE,
          config |-> [k \in DOMAIN config |->
              CASE k = "enabled" /\ "enabled" \in DOMAIN Val(data) -> PyBool(Val(data).enabled)
                [] k = "thresholds" /\ "thresholds" \in DOMAIN Val(data) ->
                      [sensor_type \in DOMAIN config.thresholds |->
                          IF /\ sensor_type \in DOMAIN Val(data).thresholds
                             /\ "enabled" \in DOMAIN Val(data).thresholds[sensor_type]
                          THEN [config.thresholds[sensor_type] EXCEPT
                                  !.enabled = PyBool(Val(data).thresholds[sensor_type].enabled)]
                          ELSE config.thresholds[sensor_type]]
                [] OTHER -> config[k]]]

\* variant: the patched config starts with an empty last_notification
ApplyPatch_reset(config, data) ==
    IF data = None
    THEN [ok |-> FALSE]
    ELSE [ok |-> TRUE,
          config |-> [k \in DOMAIN config |->
              CASE k = "enabled" /\ "enabled" \in DOMAIN Val(data) -> PyBool(Val(data).enabled)
                [] k = "last_notification" -> << >>
                [] OTHER -> config[k]]]

\* the "if ... in data" updates of the loaded config; ok is FALSE when one
\* of them raises
ApplyPatch(config, data) ==
    IF data = None
    THEN [ok |-> FALSE]
    ELSE LET body == Val(data)
             known == IF "thresholds" \in DOMAIN body
                      THEN DOMAIN body.thresholds \cap DOMAIN config.thresholds
                      ELSE {}
             patched == [sensor_type \in known |->
                            PatchThreshold(config.thresholds[sensor_type],
                                           body.thresholds[sensor_type])]
         IN  IF \E sensor_type \in known : ~patched[sensor_type].ok
             THEN [ok |-> FALSE]
             ELSE [ok |-> TRUE,
                   config |-> [k \in DOMAIN config |->
                     CASE k = "enabled" /\ "enabled" \in DOMAIN body -> PyBool(body.enabled)
                       [] k = "bot_token" /\ "bot_token" \in DOMAIN body ->
                             Strip(PyStr(body.bot_token))
                       [] k = "chat_id" /\ "chat_id" \in DOMAIN body ->
                             Strip(PyStr(body.chat_id))
                       [] k = "thresholds" ->
                             [sensor_type \in DOMAIN config.thresholds |->
                                 IF sensor_type \in known THEN patched[sensor_type].th
                                 ELSE config.thresholds[sensor_type]]
                       [] OTHER -> config[k]]]

api_telegram_config_set(data, loadOutcome, saveOutcome) ==
    LET loaded == load_config(Disk, now, loadOutcome)
        patch == ApplyPatch(loaded.config, data)
        saved == IF patch.ok THEN save_config(patch.config, loaded.disk, now, saveOutcome)
                 ELSE [ok |-> FALSE, disk |-> loaded.disk]
    IN  /\ TELEGRAM_AVAILABLE
        /\ file' = saved.disk.file
        /\ mtime' = saved.disk.mtime
        /\ cache' = saved.disk.cache
        /\ cacheMtime' = saved.disk.cacheMtime
        /\ call' = [op |-> "api_telegram_config_set",
                    status |-> IF saved.ok THEN 200 ELSE 500]
        /\ UNCHANGED <<now, latest_reading, lastSend, readings, reply, worker,
                       monitoring_active, request, parked>>

----------------------------------------------------------------------------
(* telegram_notifier.check_and_notify as an operation of its own *)

CheckAndNotify(p, saveOutcome, delivered) ==
    LET r == check_and_notify(p, Disk, now, saveOutcome, delivered)
    IN  /\ file' = r.disk.file
        /\ mtime' = r.disk.mtime
        /\ cache' = r.disk.cache
        /\ cacheMtime' = r.disk.cacheMtime
        /\ lastSend' = RecordSends(lastSend, r.sent, r.results, now)
        /\ (r.sent = << >>) => delivered
        /\ call' = [op |-> "check_and_notify", p |-> p, time |-> now,
                    cold |-> (cache = None),
                    notifications |-> r.notifications, sent |-> r.sent,
                    saved |-> r.saved, results |-> r.results]
        /\ UNCHANGED <<now, latest_reading, readings, reply, worker,
                       monitoring_active, request, parked>>

----------------------------------------------------------------------------
(* Inputs *)

\* a config file left by an earlier run: alerts on for every metric
ActiveFile ==
    [enabled |-> TRUE, bot_token |-> <<"t">>, chat_id |-> <<"4">>,
     thresholds |-> [co2_ppm |-> [enabled |-> TRUE],
                     temperature_c |-> [enabled |-> TRUE],
                     humidity |-> [enabled |-> TRUE]]]

InitFiles == {Missing, JsonDump(ActiveFile)}

\* the same file edited by hand so that last_notification is null
NullStateFile ==
    [k \in DOMAIN ActiveFile \cup {"last_notification"} |->
        IF k = "last_notification" THEN JNull ELSE ActiveFile[k]]

\* sensor values handed to check_and_notify: 400 / 30 / 30 lie within the
\* default bounds (30 on a bound), 1200 / 35 / 20 outside them
NoReading == [m \in Metrics |-> None]

SensorReadings ==
    { NoReading,
      [NoReading EXCEPT !.co2_ppm = Some(1200)],
      [NoReading EXCEPT !.co2_ppm = Some(400), !.temperature_c = Some(35)],
      [co2_ppm |-> Some(1200), temperature_c |-> Some(30), humidity |-> Some(20)] }

\* request bodies: the settings form posted whole, and two bodies that
\* cannot be processed
Form(enabled, chat_id, temperature, cooldown) ==
    Some([enabled |-> JBool(enabled), bot_token |-> JStr(<<" ", "t">>),
          chat_id |-> chat_id,
          thresholds |-> [co2_ppm |-> [enabled |-> JBool(TRUE),
                                       cooldown_minutes |-> cooldown],
                          temperature_c |-> [enabled |-> JBool(temperature)],
                          humidity |-> [enabled |-> JBool(TRUE)],
                          pm25 |-> [enabled |-> JBool(TRUE)]]])

Patches ==
    << Form(TRUE, JNum(4), TRUE, JNum(30)),
       Form(FALSE, JNum(4), TRUE, JNum(30)),
       Form(TRUE, JStr(<<" ">>), TRUE, JNum(30)),
       Form(TRUE, JNum(4), FALSE, JStr(<<"1", "0">>)),
       Some([thresholds |-> [co2_ppm |-> [enabled |-> JBool(FALSE),
                                          max |-> JStr(<<"x">>)]]]),
       None >>

\* the instants at which the clock is read
Instants == {0, 10, MaxTime}

Init ==
    /\ now = 0
    /\ file \in InitFiles
    /\ mtime = IF file = Missing THEN None ELSE Some(0)
    /\ cache = None
    /\ cacheMtime = None
    /\ latest_reading = InitialLatest
    /\ lastSend = [m \in Metrics |-> None]
    /\ call = Idle
    /\ readings = << >>
    /\ reply = None
    /\ worker = Scanning
    /\ monitoring_active = TRUE
    /\ request = None
    /\ parked = << >>

----------------------------------------------------------------------------
(* The alert evaluator and the configuration endpoint on a config file that *)
(* can be written *)

NextNotifier ==
    \/ \E p \in SensorReadings : \E delivered \in BOOLEAN :
          CheckAndNotify(p, "ok", delivered)
    \/ \E i \in DOMAIN Patches : api_telegram_config_set(Patches[i], "ok", "ok")
    \/ Restart
    \/ \E t \in Instants : Tick(t - now)

SpecNotifier == Init /\ [][NextNotifier]_vars

----------------------------------------------------------------------------
(* The same operations on a config file whose writing can fail *)

FaultReadings ==
    { [NoReading EXCEPT !.co2_ppm = Some(1200)],
      [co2_ppm |-> Some(1200), temperature_c |-> Some(30), humidity |-> Some(20)] }

NextDiskFault ==
    \/ \E p \in FaultReadings : \E delivered \in BOOLEAN :
          \E outcome \in SaveOutcomes : CheckAndNotify(p, outcome, delivered)
    \/ \E i \in {1, 2} : \E loadOutcome, saveOutcome \in SaveOutcomes :
          api_telegram_config_set(Patches[i], loadOutcome, saveOutcome)
    \/ Restart
    \/ \E t \in Instants : Tick(t - now)

SpecDiskFault == Init /\ [][NextDiskFault]_vars

----------------------------------------------------------------------------
(* The program: readings arriving at update_latest_reading, configuration   *)
(* requests, restarts and the clock, on a config file that can be written   *)

BlankReading == [f \in ReadingFields |-> None]

Readings ==
    { BlankReading,
      [BlankReading EXCEPT !.co2_ppm = Some(1200), !.temperature_c = Some(22),
                           !.rssi = Some(-60)],
      [BlankReading EXCEPT !.temperature_c = Some(25), !.rssi = Some(-60)],
      [co2_ppm |-> Some(400), temperature_c |-> Some(35), humidity |-> Some(20),
       rssi |-> Some(-70), cpu_usage_percent |-> Some(12),
       ram_usage_percent |-> Some(40), cpu_temp_c |-> Some(50)] }

Next ==
    \/ \E p \in Readings : \E delivered \in BOOLEAN :
          update_latest_reading(p, "ok", delivered)
    \/ api_telegram_config_set(Patches[1], "ok", "ok")
    \/ Restart
    \/ \E t \in Instants : Tick(t - now)

InitProgram ==
    /\ now = 0
    /\ file \in InitFiles \cup {JsonDump(NullStateFile)}
    /\ mtime = IF file = Missing THEN None ELSE Some(0)
    /\ cache = None
    /\ cacheMtime = None
    /\ latest_reading = InitialLatest
    /\ lastSend = [m \in Metrics |-> None]
    /\ call = Idle
    /\ readings = << >>
    /\ reply = None
    /\ worker = Scanning
    /\ monitoring_active = TRUE
    /\ request = None
    /\ parked = << >>

Spec == InitProgram /\ [][Next]_vars

----------------------------------------------------------------------------
(* app.py: the sampling thread (monitor_myco2_async) step by step, next to  *)
(* the request thread that serves /api/latest and the socket connect event. *)
(* The threads share latest_reading without a lock, so the worker's cycle   *)
(* is split at every point where the request thread can run.                *)

MaxRows == 2

\* what parser.update(service_info) hands back: None when the payload is not
\* supported or parsing raised, else entity_values as key -> native_value
DecoderUpdates ==
    { None,
      Some([carbon_dioxide |-> Some(1200), temperature |-> Some(22),
            humidity |-> Some(40)]),
      Some([carbon_dioxide |-> None]),
      Some([carbon_dioxide |-> Some(20000), temperature |-> Some(22)]),
      Some([battery |-> Some(90)]) }

\* the column each entity key of the decoder is stored under
EntityColumn ==
    [carbon_dioxide |-> "co2_ppm", temperature |-> "temperature_c", humidity |-> "humidity"]

\* the result dict built from entity_values; None when it stays empty
parse_with_sensirion_ble(update) ==
    IF update = None
    THEN None
    ELSE LET entity_values == Val(update)
             keys == DOMAIN entity_values \cap DOMAIN EntityColumn
             result == [f \in {EntityColumn[k] : k \in keys} |->
                          entity_values[CHOOSE k \in keys : EntityColumn[k] = f]]
         IN  IF keys # {} THEN Some(result) ELSE None

\* what BleakScanner.discover found of the device: props of the advertisement
Advertisements ==
    { [ManufacturerData |-> None, RSSI |-> -100],
      [ManufacturerData |-> Some("06d5"), RSSI |-> -60] }

\* get_system_metrics()
HostMetrics ==
    { [cpu_usage_percent |-> Some(12), ram_usage_percent |-> Some(40),
       cpu_temp_c |-> Some(50)] }

\* the keyword arguments of save_reading and update_latest_reading
CycleReading(result, rssi, metrics) ==
    [f \in ReadingFields |->
        CASE f \in SensorFields -> Get(result, f, None)
          [] f = "rssi" -> Some(rssi)
          [] OTHER -> metrics[f]]

\* variant: INSERT OR REPLACE on the newest row
save_reading_replace(rows, p, raw_data, t) ==
    LET row == [f \in ReadingFields \cup {"timestamp", "raw_data"} |->
                  CASE f = "timestamp" -> IsoFormat(t)
                    [] f = "raw_data" -> raw_data
                    [] OTHER -> p[f]]
    IN  IF rows = << >> THEN <<row>>
        ELSE SubSeq(rows, 1, Len(rows) - 1) \o <<row, row>>

\* variant: the INSERT is executed twice
save_reading_twice(rows, p, raw_data, t) ==
    LET row == [f \in ReadingFields \cup {"timestamp", "raw_data"} |->
                  CASE f = "timestamp" -> IsoFormat(t)
                    [] f = "raw_data" -> raw_data
                    [] OTHER -> p[f]]
    IN  rows \o <<row, row>>

\* the row inserted by save_reading
save_reading(rows, p, raw_data, t) ==
    Append(rows, [f \in ReadingFields \cup {"timestamp", "raw_data"} |->
                     CASE f = "timestamp" -> IsoFormat(t)
                       [] f = "raw_data" -> raw_data
                       [] OTHER -> p[f]])

\* the assignments of update_latest_reading in program order
MergeOrder ==
    <<"co2_ppm", "temperature_c", "humidity", "rssi", "cpu_usage_percent",
      "ram_usage_percent", "cpu_temp_c", "timestamp">>

\* lines 493-515: scan, decode, read the host metrics; nothing shared is
\* touched.  A truthy result leads to save_reading, anything else to the wait
Discover(adv, update, metrics) ==
    /\ worker.pc = "discover"
    /\ LET sensirion_result == IF adv.ManufacturerData # None
                               THEN parse_with_sensirion_ble(update)
                               ELSE None
       IN  /\ (adv.ManufacturerData = None) => update = None
           /\ (sensirion_result # None) => Len(readings) < MaxRows
           /\ worker' = IF sensirion_result # None
                        THEN [pc |-> "save_reading",
                              p |-> CycleReading(Val(sensirion_result), adv.RSSI, metrics),
                              raw_data |-> adv.ManufacturerData]
                        ELSE [pc |-> "sleep", line |-> 636]
    /\ call' = [op |-> "discover",
                result |-> IF adv.ManufacturerData # None
                           THEN parse_with_sensirion_ble(update) ELSE None]
    /\ UNCHANGED <<now, file, mtime, cache, cacheMtime, latest_reading, lastSend,
                   readings, reply, monitoring_active, request, parked>>

\* variant: the merge is entered before the row is written
SaveReading_deferred(stored) ==
    /\ worker.pc = "save_reading"
    /\ readings' = readings
    /\ worker' = IF stored
                 THEN [pc |-> "merge", p |-> worker.p, k |-> 1,
                       before |-> latest_reading, row |-> Len(readings) + 1]
                 ELSE [pc |-> "sleep", line |-> 639]
    /\ call' = [op |-> "save_reading", stored |-> stored]
    /\ UNCHANGED <<now, file, mtime, cache, cacheMtime, latest_reading, lastSend, reply,
                   monitoring_active, request, parked>>

\* variant: an sqlite error is swallowed and the cycle goes on
SaveReading_silent(stored) ==
    /\ worker.pc = "save_reading"
    /\ readings' = IF stored
                   THEN save_reading(readings, worker.p, worker.raw_data, now)
                   ELSE readings
    /\ worker' = [pc |-> "merge", p |-> worker.p, k |-> 1,
                  before |-> latest_reading, row |-> Len(readings) + 1]
    /\ call' = [op |-> "save_reading", stored |-> stored]
    /\ UNCHANGED <<now, file, mtime, cache, cacheMtime, latest_reading, lastSend, reply,
                   monitoring_active, request, parked>>

\* variant: a reading that could not be stored still reaches latest_reading
SaveReading_merged(stored) ==
    /\ worker.pc = "save_reading"
    /\ readings' = IF stored
                   THEN save_reading(readings, worker.p, worker.raw_data, now)
                   ELSE readings
    /\ latest_reading' = IF stored THEN latest_reading
                         ELSE MergeLatest(latest_reading, worker.p, now)
    /\ worker' = IF stored
                 THEN [pc |-> "merge", p |-> worker.p, k |-> 1,
                       before |-> latest_reading, row |-> Len(readings) + 1]
                 ELSE [pc |-> "sleep", line |-> 639]
    /\ call' = [op |-> "save_reading", stored |-> stored]
    /\ UNCHANGED <<now, file, mtime, cache, cacheMtime, lastSend, reply,
                   monitoring_active, request, parked>>

\* lines 516-525; an sqlite error leaves the cycle through "except Exception"
SaveReading(stored) ==
    /\ worker.pc = "save_reading"
    /\ readings' = IF stored
                   THEN save_reading(readings, worker.p, worker.raw_data, now)
                   ELSE readings
    /\ worker' = IF stored
                 THEN [pc |-> "merge", p |-> worker.p, k |-> 1,
                       before |-> latest_reading, row |-> Len(readings) + 1]
                 ELSE [pc |-> "sleep", line |-> 639]
    /\ call' = [op |-> "save_reading", stored |-> stored]
    /\ UNCHANGED <<now, file, mtime, cache, cacheMtime, latest_reading, lastSend, reply,
                   monitoring_active, request, parked>>

\* lines 287-302, one assignment at a time
MergeStep ==
    /\ worker.pc = "merge"
    /\ LET f == MergeOrder[worker.k]
       IN  latest_reading' =
              IF f = "timestamp"
              THEN [latest_reading EXCEPT !.timestamp = Some(IsoFormat(now))]
              ELSE IF worker.p[f] # None
              THEN [latest_reading EXCEPT ![f] = worker.p[f]]
              ELSE latest_reading
    /\ worker' = IF worker.k < Len(MergeOrder)
                 THEN [worker EXCEPT !.k = worker.k + 1]
                 ELSE [pc |-> "check_and_notify", p |-> worker.p,
                       before |-> worker.before, row |-> worker.row]
    /\ call' = [op |-> "merge"]
    /\ UNCHANGED <<now, file, mtime, cache, cacheMtime, lastSend, readings, reply,
                   monitoring_active, request, parked>>

\* lines 305-309
Notify(delivered) ==
    /\ worker.pc = "check_and_notify"
    /\ LET p == [m \in Metrics |-> worker.p[m]]
           r == check_and_notify(p, Disk, now, "ok", delivered)
       IN  /\ file' = r.disk.file
           /\ mtime' = r.disk.mtime
           /\ cache' = r.disk.cache
           /\ cacheMtime' = r.disk.cacheMtime
           /\ lastSend' = RecordSends(lastSend, r.sent, r.results, now)
           /\ (r.sent = << >>) => delivered
           /\ call' = [op |-> "check_and_notify", p |-> p, time |-> now,
                       cold |-> (cache = None),
                       notifications |-> r.notifications, sent |-> r.sent,
                       saved |-> r.saved, results |-> r.results]
    /\ worker' = [worker EXCEPT !.pc = "emit"]
    /\ UNCHANGED <<now, latest_reading, readings, reply,
                   monitoring_active, request, parked>>

\* line 312
Emit ==
    /\ worker.pc = "emit"
    /\ call' = [op |-> "sensor_update", payload |-> latest_reading]
    /\ worker' = [pc |-> "sleep", line |-> 636]
    /\ UNCHANGED <<now, file, mtime, cache, cacheMtime, latest_reading, lastSend,
                   readings, reply, monitoring_active, request, parked>>

\* the argument of both asyncio.sleep calls of the loop, in seconds
SleepSeconds == 5

\* the thread after "while monitoring_active" found the flag cleared
Exited == [pc |-> "exited"]

\* variant: the wait is followed by a further scan whatever the flag says
Sleep_unconditional ==
    /\ worker.pc = "sleep"
    /\ worker' = Scanning
    /\ call' = [op |-> "sleep", seconds |-> SleepSeconds, line |-> worker.line]
    /\ UNCHANGED <<now, file, mtime, cache, cacheMtime, latest_reading, lastSend,
                   readings, reply, monitoring_active, request, parked>>

\* line 636, or line 639 after an exception: the wait between two scans,
\* then the loop condition of line 490
Sleep ==
    /\ worker.pc = "sleep"
    /\ worker' = IF monitoring_active THEN Scanning ELSE Exited
    /\ call' = [op |-> "sleep", seconds |-> SleepSeconds, line |-> worker.line]
    /\ UNCHANGED <<now, file, mtime, cache, cacheMtime, latest_reading, lastSend,
                   readings, reply, monitoring_active, request, parked>>

\* GET /api/latest on the request thread: the dict as jsonify finds it
api_latest ==
    /\ reply' = [op |-> "api_latest", body |-> latest_reading]
    /\ UNCHANGED <<now, file, mtime, cache, cacheMtime, latest_reading, lastSend,
                   call, readings, worker, monitoring_active, request, parked>>

\* the socket connect event on the request thread
handle_connect ==
    /\ reply' = [op |-> "handle_connect", body |-> latest_reading]
    /\ UNCHANGED <<now, file, mtime, cache, cacheMtime, latest_reading, lastSend,
                   call, readings, worker, monitoring_active, request, parked>>

InitSampling ==
    /\ now = 0
    /\ file = JsonDump(ActiveFile)
    /\ mtime = Some(0)
    /\ cache = None
    /\ cacheMtime = None
    /\ latest_reading = InitialLatest
    /\ lastSend = [m \in Metrics |-> None]
    /\ call = Idle
    /\ readings = << >>
    /\ reply = None
    /\ worker = Scanning
    /\ monitoring_active = TRUE
    /\ request = None
    /\ parked = << >>

NextSampling ==
    \/ \E adv \in Advertisements : \E update \in DecoderUpdates :
          \E metrics \in HostMetrics : Discover(adv, update, metrics)
    \/ \E stored \in BOOLEAN : SaveReading(stored)
    \/ MergeStep
    \/ \E delivered \in BOOLEAN : Notify(delivered)
    \/ Emit
    \/ Sleep
    \/ api_latest
    \/ handle_connect
    \/ \E t \in Instants : Tick(t - now)

SpecSampling == InitSampling /\ [][NextSampling]_vars

----------------------------------------------------------------------------
(* check_threshold applied to configurations and values of every shape *)

ThresholdConfigs ==
    { [DEFAULT_CONFIG EXCEPT
          !.enabled = e,
          !.thresholds = [m \in Metrics |->
                             [enabled |-> me, min |-> mn, max |-> mx,
                              cooldown_minutes |-> DefaultCooldown]]] :
        e \in BOOLEAN, me \in BOOLEAN,
        mn \in {None, Some(10), Some(1000)}, mx \in {None, Some(30), Some(1000)} }

ThresholdValues == {None, Some(5), Some(10), Some(30), Some(1000), Some(1200)}

InitThreshold ==
    /\ now = 0
    /\ file \in {JsonDump(config) : config \in ThresholdConfigs}
    /\ mtime = Some(0)
    /\ cache = None
    /\ cacheMtime = None
    /\ latest_reading = InitialLatest
    /\ lastSend = [m \in Metrics |-> None]
    /\ call = Idle
    /\ readings = << >>
    /\ reply = None
    /\ worker = Scanning
    /\ monitoring_active = TRUE
    /\ request = None
    /\ parked = << >>

CheckThreshold(sensor_type, value) ==
    LET r == check_threshold(sensor_type, value, JsonLoads(file).body)
    IN  /\ call' = [op |-> "check_threshold", sensor_type |-> sensor_type,
                    value |-> value, hit |-> r.hit, msg |-> r.msg]
        /\ UNCHANGED <<now, file, mtime, cache, cacheMtime, latest_reading, lastSend,
                       readings, reply, worker, monitoring_active, request, parked>>

NextThreshold ==
    \E sensor_type \in Metrics : \E value \in ThresholdValues :
        CheckThreshold(sensor_type, value)

SpecThreshold == InitThreshold /\ [][NextThreshold]_vars

----------------------------------------------------------------------------
(* app.py and services/storage.py: the history and statistics queries *)

MaxStore == 6

MinutesPerHour == 60

\* the columns selected by the history queries
HistoryColumns == LatestFields

\* dict(row) of a selected row
Project(row) == [c \in HistoryColumns |-> row[c]]

\* "timestamp >= ?" compares the isoformat texts; with the fixed +08:00
\* offset the texts order as the instants they were formatted from
TextGeq(a, b) == FromIsoFormat(a) >= FromIsoFormat(b)

\* variant: no WHERE clause
WhereSince_all(rows, since_iso) == rows

\* WHERE timestamp >= ?
WhereSince(rows, since_iso) ==
    SelectSeq(rows, LAMBDA row : TextGeq(row.timestamp, since_iso))

\* ORDER BY timestamp ASC: rows of equal timestamp stay in insertion order
RECURSIVE OrderByTimestamp(_)
OrderByTimestamp(rows) ==
    IF rows = << >>
    THEN << >>
    ELSE LET last == rows[Len(rows)]
             sorted == OrderByTimestamp(SubSeq(rows, 1, Len(rows) - 1))
             keep == SelectSeq(sorted, LAMBDA row : TextGeq(last.timestamp, row.timestamp))
             move == SelectSeq(sorted, LAMBDA row : ~TextGeq(last.timestamp, row.timestamp))
         IN  keep \o <<last>> \o move

\* the SELECT without sampling, shared by api_history and fetch_history
SelectSince(rows, since_iso) ==
    LET matching == OrderByTimestamp(WhereSince(rows, since_iso))
    IN  [i \in DOMAIN matching |-> Project(matching[i])]

Min(a, b) == IF a < b THEN a ELSE b

Max(a, b) == IF a > b THEN a ELSE b

\* variant: the loop runs over i = 1 .. max_points
SampleFractional_shifted(data, max_points) ==
    [k \in 1..max_points |->
        data[Min((k * Len(data)) \div max_points, Len(data) - 1) + 1]]

\* lines 697-702 of app.py: step = len(data) / max_points is a float and
\* idx = int(i * step); for the sizes of this model int(i * step) equals
\* floor(i * len(data) / max_points) exactly
SampleFractional(data, max_points) ==
    [k \in 1..max_points |->
        data[Min(((k - 1) * Len(data)) \div max_points, Len(data) - 1) + 1]]

\* int(request.args.get(name, default))
IntArg(arg, default) ==
    IF arg = None THEN [ok |-> TRUE, v |-> default] ELSE ParseNumber(Val(arg))

\* GET /api/history of app.py; an argument that int() rejects gives a 500
api_history_result(rows, t, hoursArg, maxPointsArg) ==
    LET hours == IntArg(hoursArg, 24)
        max_points == IntArg(maxPointsArg, 0)
    IN  IF ~hours.ok \/ ~max_points.ok
        THEN [status |-> 500]
        ELSE LET since == t - hours.v * MinutesPerHour
                 data == SelectSince(rows, IsoFormat(since))
             IN  [status |-> 200, since |-> since, max_points |-> max_points.v,
                  body |-> IF max_points.v > 0 /\ Len(data) > max_points.v
                           THEN SampleFractional(data, max_points.v)
                           ELSE data]

\* variant: max_points = 0 is taken as a limit of no rows
fetch_history_zero(rows, since_iso, max_points) ==
    LET data == SelectSince(rows, since_iso)
    IN  IF Len(data) > max_points
        THEN SubSeq(data, 1, Max(max_points, 0))
        ELSE data

\* services/storage.py: sampling in SQL with the stride total // max_points
fetch_history(rows, since_iso, max_points) ==
    IF max_points > 0
    THEN LET total_count == Len(WhereSince(rows, since_iso))
         IN  IF total_count > max_points
             THEN LET step == Max(1, total_count \div max_points)
                      matching == OrderByTimestamp(WhereSince(rows, since_iso))
                      picked == SelectSeq([i \in DOMAIN matching |-> i],
                                          LAMBDA rn : (rn - 1) % step = 0)
                  IN  [i \in 1..Min(max_points, Len(picked)) |->
                          Project(matching[picked[i]])]
             ELSE SelectSince(rows, since_iso)
    ELSE SelectSince(rows, since_iso)

\* the non-null values of one column
ColumnValues(rows, c) ==
    LET present == SelectSeq(rows, LAMBDA row : row[c] # None)
    IN  [i \in DOMAIN present |-> Val(present[i][c])]

RECURSIVE SumSeq(_)
SumSeq(xs) == IF xs = << >> THEN 0 ELSE Head(xs) + SumSeq(Tail(xs))

\* AVG(column): NULL without a non-null value, else sum / count as a fraction
SqlAvg(xs) == IF xs = << >> THEN None ELSE Some([sum |-> SumSeq(xs), n |-> Len(xs)])

\* MIN(column) and MAX(column): NULL without a non-null value
SqlMin(xs) ==
    IF xs = << >> THEN None
    ELSE Some(CHOOSE x \in {xs[i] : i \in DOMAIN xs} : \A i \in DOMAIN xs : x <= xs[i])

SqlMax(xs) ==
    IF xs = << >> THEN None
    ELSE Some(CHOOSE x \in {xs[i] : i \in DOMAIN xs} : \A i \in DOMAIN xs : x >= xs[i])

\* variant: aggregates that start from zero
fetch_stats_24h_zero(rows, since_iso) ==
    LET window == WhereSince(rows, since_iso)
        co2 == ColumnValues(window, "co2_ppm")
        temp == ColumnValues(window, "temperature_c")
    IN  [count |-> Len(window),
         avg_co2 |-> IF co2 = << >> THEN Some([sum |-> 0, n |-> 1]) ELSE SqlAvg(co2),
         min_co2 |-> IF co2 = << >> THEN Some(0) ELSE SqlMin(co2),
         max_co2 |-> IF co2 = << >> THEN Some(0) ELSE SqlMax(co2),
         avg_temp |-> IF temp = << >> THEN Some([sum |-> 0, n |-> 1]) ELSE SqlAvg(temp),
         min_temp |-> IF temp = << >> THEN Some(0) ELSE SqlMin(temp),
         max_temp |-> IF temp = << >> THEN Some(0) ELSE SqlMax(temp)]

\* the aggregate SELECT of fetch_stats_24h, which api_stats repeats verbatim
fetch_stats_24h(rows, since_iso) ==
    LET window == WhereSince(rows, since_iso)
        co2 == ColumnValues(window, "co2_ppm")
        temp == ColumnValues(window, "temperature_c")
    IN  [count |-> Len(window),
         avg_co2 |-> SqlAvg(co2), min_co2 |-> SqlMin(co2), max_co2 |-> SqlMax(co2),
         avg_temp |-> SqlAvg(temp), min_temp |-> SqlMin(temp), max_temp |-> SqlMax(temp)]

api_history(hoursArg, maxPointsArg) ==
    LET r == api_history_result(readings, now, hoursArg, maxPointsArg)
    IN  /\ reply' = [k \in DOMAIN r \cup {"op", "unset"} |->
                        CASE k = "op" -> "api_history"
                          [] k = "unset" -> (maxPointsArg = None)
                          [] OTHER -> r[k]]
        /\ UNCHANGED <<now, file, mtime, cache, cacheMtime, latest_reading, lastSend,
                       call, readings, worker, monitoring_active, request, parked>>

FetchHistory(since, max_points) ==
    /\ reply' = [op |-> "fetch_history", status |-> 200, since |-> since,
                 max_points |-> max_points, unset |-> FALSE,
                 body |-> fetch_history(readings, IsoFormat(since), max_points)]
    /\ UNCHANGED <<now, file, mtime, cache, cacheMtime, latest_reading, lastSend,
                   call, readings, worker, monitoring_active, request, parked>>

\* GET /api/stats: the window is the last 24 hours
api_stats ==
    LET since == now - 24 * MinutesPerHour
    IN  /\ reply' = [op |-> "api_stats", status |-> 200, since |-> since,
                     body |-> fetch_stats_24h(readings, IsoFormat(since))]
        /\ UNCHANGED <<now, file, mtime, cache, cacheMtime, latest_reading, lastSend,
                       call, readings, worker, monitoring_active, request, parked>>

FetchStats24h(since) ==
    /\ reply' = [op |-> "fetch_stats_24h", status |-> 200, since |-> since,
                 body |-> fetch_stats_24h(readings, IsoFormat(since))]
    /\ UNCHANGED <<now, file, mtime, cache, cacheMtime, latest_reading, lastSend,
                   call, readings, worker, monitoring_active, request, parked>>

\* the instant of the i-th stored row: one old row, then one every 100 minutes
StoreTime(i) == IF i = 1 THEN 100 ELSE 1400 + 100 * i

\* the instant of the queries, after every stored row
QueryTime == StoreTime(MaxStore) + 100

StoredRow(i, co2, temp) ==
    [f \in ReadingFields \cup {"timestamp", "raw_data"} |->
        CASE f = "timestamp" -> IsoFormat(StoreTime(i))
          [] f = "co2_ppm" -> co2
          [] f = "temperature_c" -> temp
          [] f = "raw_data" -> Some("06d5")
          [] f = "rssi" -> Some(-60)
          [] OTHER -> None]

\* tables left by earlier cycles: the first n rows of a run with values in
\* every row, and of a run in which co2 (or temperature) never had a value
StoreContents ==
    { [i \in 1..n |-> StoredRow(i, Some(400 + 100 * i), Some(20 + i))] : n \in 0..MaxStore }
    \cup { [i \in 1..n |-> StoredRow(i, None, Some(20 + i))] : n \in 1..MaxStore }
    \cup { [i \in 1..n |-> StoredRow(i, Some(400 + 100 * i), None)] : n \in 1..MaxStore }

\* query strings: absent, numerals, a negative number, not a number
HoursArgs == {None, Some(<<"3">>), Some(<<"4", "8">>), Some(<<"-", "1">>), Some(<<"x">>)}

MaxPointsArgs ==
    {None} \cup {Some(NumeralOf(n)) : n \in 0..(MaxStore + 1)} \cup {Some(<<"-", "2">>)}

SinceInstants == {0, StoreTime(2), StoreTime(3) + 50, QueryTime + 60}

InitHistory ==
    /\ now = QueryTime
    /\ file = Missing
    /\ mtime = None
    /\ cache = None
    /\ cacheMtime = None
    /\ latest_reading = InitialLatest
    /\ lastSend = [m \in Metrics |-> None]
    /\ call = Idle
    /\ readings \in StoreContents
    /\ reply = None
    /\ worker = Scanning
    /\ monitoring_active = TRUE
    /\ request = None
    /\ parked = << >>

NextHistory ==
    \/ \E hoursArg \in HoursArgs : \E maxPointsArg \in MaxPointsArgs :
          api_history(hoursArg, maxPointsArg)
    \/ \E since \in SinceInstants : \E max_points \in -1..(MaxStore + 1) :
          FetchHistory(since, max_points)
    \/ api_stats
    \/ \E since \in SinceInstants : FetchStats24h(since)

SpecHistory == InitHistory /\ [][NextHistory]_vars

----------------------------------------------------------------------------
(* Vocabulary of the properties *)

\* the configuration the file holds, as a cold load_config would return it
PersistedConfig ==
    IF file.kind = "json" THEN _merge_with_default_config(file.body) ELSE DEFAULT_CONFIG

\* last_notification[m] of the file, as a time; None when there is none
PersistedLast(m) ==
    IF m \in DOMAIN PersistedConfig.last_notification
    THEN Some(FromIsoFormat(PersistedConfig.last_notification[m]))
    ELSE None

\* alerts are switched on and the channel credentials are set
Active(cfg) == cfg.enabled /\ cfg.bot_token # EmptyStr /\ cfg.chat_id # EmptyStr

\* v violates the enabled bound of metric m
Violates(m, v, cfg) ==
    /\ cfg.thresholds[m].enabled
    /\ v # None
    /\ \/ cfg.thresholds[m].min # None /\ Val(v) < Val(cfg.thresholds[m].min)
       \/ cfg.thresholds[m].max # None /\ Val(v) > Val(cfg.thresholds[m].max)

\* at time t metric m has no earlier notification or its cooldown has run out
CooledDown(m, cfg, t) ==
    \/ m \notin DOMAIN cfg.last_notification
    \/ t - FromIsoFormat(cfg.last_notification[m]) >= cfg.thresholds[m].cooldown_minutes

\* the call c handed the Notifier a message that names metric m
NotifiedIn(c, m) == \E i \in DOMAIN c.sent : Names(c.sent[i], m)

----------------------------------------------------------------------------
C2_ViolationPredicate ==
    call.op = "check_threshold" =>
        LET cfg == PersistedConfig
            th == cfg.thresholds[call.sensor_type]
            v == call.value
        IN  (cfg.enabled /\ th.enabled /\ v # None) =>
              /\ call.hit <=> \/ th.min # None /\ Val(v) < Val(th.min)
                              \/ th.max # None /\ Val(v) > Val(th.max)
              /\ (th.min = None /\ th.max # None /\ Val(v) <= Val(th.max)) => ~call.hit
              /\ (th.min # None /\ Val(v) = Val(th.min) /\ call.hit)
                     => Val(call.msg).kind # "below_min"
              /\ (th.max # None /\ Val(v) = Val(th.max) /\ call.hit)
                     => Val(call.msg).kind # "above_max"
              /\ (th.min # None /\ th.max # None /\ Val(th.min) <= Val(th.max)
                    /\ (v = th.min \/ v = th.max)) => ~call.hit

\* only max = 1000 is set and the value 5 is not a violation
C2_Witness ==
    /\ call.op = "check_threshold"
    /\ PersistedConfig.enabled
    /\ PersistedConfig.thresholds[call.sensor_type].enabled
    /\ PersistedConfig.thresholds[call.sensor_type].min = None
    /\ PersistedConfig.thresholds[call.sensor_type].max = Some(1000)
    /\ call.value = Some(5)
    /\ ~call.hit

C4_AtomicBatch ==
    (call.op = "check_and_notify" /\ call.sent # << >>) =>
        \A m \in SensorsOf(call.notifications) : PersistedLast(m) = Some(call.time)

C6_DisabledShortCircuit ==
    [][call'.op = "check_and_notify" =>
        LET cfg == PersistedConfig
        IN  /\ ~Active(cfg) =>
                  /\ call'.notifications = << >>
                  /\ call'.sent = << >>
                  /\ PersistedConfig' = cfg
                  /\ lastSend' = lastSend
            /\ \A m \in Metrics :
                  ~cfg.thresholds[m].enabled =>
                     /\ m \notin SensorsOf(call'.notifications)
                     /\ ~NotifiedIn(call', m)
                     /\ PersistedConfig'.thresholds[m] = cfg.thresholds[m]
                     /\ PersistedLast(m)' = PersistedLast(m)
    ]_vars

\* co2 = 1200 was evaluated with the global switch off: nothing was sent
C6_Witness ==
    /\ call.op = "check_and_notify"
    /\ ~PersistedConfig.enabled
    /\ PersistedConfig.thresholds["co2_ppm"].enabled
    /\ PersistedConfig.chat_id # EmptyStr
    /\ call.p["co2_ppm"] = Some(1200)
    /\ call.sent = << >>

C8_ConfigEditsKeepAlertState ==
    [][ /\ (call'.op = "api_telegram_config_set" /\ call'.status = 200) =>
              PersistedConfig'.last_notification = PersistedConfig.last_notification
        /\ PersistedConfig'.last_notification # PersistedConfig.last_notification =>
              call'.op = "check_and_notify" /\ call'.sent # << >>
    ]_vars

\* a request was saved while the map held a timestamp
C8_Witness ==
    /\ call.op = "api_telegram_config_set"
    /\ call.status = 200
    /\ PersistedLast("co2_ppm") # None
    /\ ~PersistedConfig.thresholds["temperature_c"].enabled

C10_FieldwiseMerge ==
    [][call'.op = "update_latest_reading" =>
        /\ \A f \in ReadingFields :
              /\ call'.p[f] # None => latest_reading'[f] = call'.p[f]
              /\ call'.p[f] = None => latest_reading'[f] = latest_reading[f]
              /\ latest_reading[f] # None => latest_reading'[f] # None
        /\ latest_reading'.timestamp = Some(IsoFormat(now))
    ]_vars

\* a reading without co2 arrived after co2 was 1200, and co2 is still 1200
C10_Witness ==
    /\ call.op = "update_latest_reading"
    /\ call.p["co2_ppm"] = None
    /\ call.p["temperature_c"] = Some(25)
    /\ latest_reading["co2_ppm"] = Some(1200)
    /\ latest_reading["temperature_c"] = Some(25)

----------------------------------------------------------------------------
(* C11: a read of latest_reading by api_latest or handle_connect made while  *)
(* the sampling thread is inside update_latest_reading returns the complete  *)
(* snapshot from before that update or the complete snapshot after it.       *)
C11_NoPartialSnapshot ==
    [][ ( /\ reply' # reply
          /\ worker.pc \in {"merge", "check_and_notify", "emit"} )
        => \/ reply'.body = worker.before
           \/ \E t \in 0..MaxTime :
                 reply'.body = MergeLatest(worker.before, worker.p, t)
    ]_vars

(* C12: every call of update_latest_reading makes exactly one sensor_update  *)
(* broadcast, and its payload is the complete LatestState after the merge of *)
(* that call; this holds as well when check_and_notify raised and when the   *)
(* Notifier reported failure.                                                *)
C12_BroadcastOnUpdate ==
    [][call'.op = "update_latest_reading" =>
        /\ Len(call'.emitted) = 1
        /\ call'.emitted[1] = latest_reading'
        /\ \A f \in ReadingFields :
              call'.emitted[1][f] = IF call'.p[f] # None THEN call'.p[f]
                                    ELSE latest_reading[f]
        /\ call'.emitted[1].timestamp = Some(IsoFormat(now))
    ]_vars

\* a call in which check_and_notify raised, and the broadcast it still made
C12_Witness ==
    /\ call.op = "update_latest_reading"
    /\ call.raised
    /\ call.p["co2_ppm"] = Some(1200)
    /\ Len(call.emitted) = 1
    /\ call.emitted[1]["co2_ppm"] = Some(1200)

----------------------------------------------------------------------------
(* Vocabulary of the history and statistics properties *)

\* the reply of a history query that was answered
HistoryReply ==
    /\ reply # None
    /\ reply.op \in {"api_history", "fetch_history"}
    /\ reply.status = 200

\* the stored rows with timestamp >= since, oldest first, as selected columns
MatchingRows(since) ==
    LET matching == SelectSeq(readings, LAMBDA row : FromIsoFormat(row.timestamp) >= since)
    IN  [i \in DOMAIN matching |-> Project(matching[i])]

\* rows 0, s, 2s, ... of data, at most max_points of them
StrideSample(data, s, max_points) ==
    [k \in 1..Min(max_points, ((Len(data) - 1) \div s) + 1) |-> data[(k - 1) * s + 1]]

RECURSIVE IsSubsequence(_, _)
IsSubsequence(a, b) ==
    IF a = << >> THEN TRUE
    ELSE IF b = << >> THEN FALSE
    ELSE IF Head(a) = Head(b) THEN IsSubsequence(Tail(a), Tail(b))
    ELSE IsSubsequence(a, Tail(b))

(* C13: a history query with max_points > 0 over N > max_points matching     *)
(* rows returns the rows at indices 0, s, 2s, ... of the ascending matching  *)
(* sequence, s = floor(N / max_points), at most max_points of them.          *)
C13_SystematicDownsampling ==
    HistoryReply =>
        LET data == MatchingRows(reply.since)
        IN  (reply.max_points > 0 /\ Len(data) > reply.max_points) =>
               reply.body = StrideSample(data, Len(data) \div reply.max_points,
                                         reply.max_points)

(* C14: the result of a history query holds only rows with timestamp >=      *)
(* since, is a subsequence of the stored rows in ascending timestamp order,  *)
(* and has at most max_points rows when max_points > 0.                      *)
C14_HistoryShape ==
    HistoryReply =>
        /\ \A i \in DOMAIN reply.body :
              FromIsoFormat(reply.body[i].timestamp) >= reply.since
        /\ IsSubsequence(reply.body, [i \in DOMAIN readings |-> Project(readings[i])])
        /\ \A i, j \in DOMAIN reply.body :
              i < j => FromIsoFormat(reply.body[i].timestamp)
                          <= FromIsoFormat(reply.body[j].timestamp)
        /\ (reply.max_points > 0 => Len(reply.body) <= reply.max_points)

\* five rows matched, three were asked for and three came back, and an older
\* row of the table was left out by since
C14_Witness ==
    /\ HistoryReply
    /\ reply.op = "api_history"
    /\ reply.max_points = 3
    /\ Len(MatchingRows(reply.since)) = 5
    /\ Len(readings) = 6
    /\ Len(reply.body) = 3

(* C15: a history query with max_points = 0, with max_points not supplied,   *)
(* or with max_points >= N returns every stored row with timestamp >= since;  *)
(* max_points = 0 and max_points not supplied give the same reply.           *)
C15_NoDownsamplingAtZero ==
    /\ ( /\ HistoryReply
         /\ \/ reply.unset
            \/ reply.max_points = 0
            \/ reply.max_points >= Len(MatchingRows(reply.since)) )
       => reply.body = MatchingRows(reply.since)
    /\ \A hoursArg \in HoursArgs :
          api_history_result(readings, now, hoursArg, Some(<<"0">>))
             = api_history_result(readings, now, hoursArg, None)

\* fetch_history with max_points = 0 returned all five matching rows
C15_Witness ==
    /\ HistoryReply
    /\ reply.op = "fetch_history"
    /\ reply.max_points = 0
    /\ Len(reply.body) = 5
    /\ Len(readings) = 6

\* the reply of a statistics query
StatsReply == reply # None /\ reply.op \in {"api_stats", "fetch_stats_24h"}

\* the rows of the window of the statistics reply
StatsWindow == SelectSeq(readings, LAMBDA row : FromIsoFormat(row.timestamp) >= reply.since)

(* C16: statistics over a window without rows are count = 0 and null for     *)
(* every average, min and max; over a window whose rows carry no co2 (or no  *)
(* temperature) value the aggregates of that metric are null and count is    *)
(* the number of rows; a history query with since in the future is empty.    *)
C16_EmptyWindowAggregates ==
    /\ StatsReply =>
          /\ reply.status = 200
          /\ reply.body.count = Len(StatsWindow)
          /\ (\A i \in DOMAIN StatsWindow : StatsWindow[i].co2_ppm = None) =>
                /\ reply.body.avg_co2 = None
                /\ reply.body.min_co2 = None
                /\ reply.body.max_co2 = None
          /\ (\A i \in DOMAIN StatsWindow : StatsWindow[i].temperature_c = None) =>
                /\ reply.body.avg_temp = None
                /\ reply.body.min_temp = None
                /\ reply.body.max_temp = None
    /\ (HistoryReply /\ reply.since > now) => reply.body = << >>

\* the table has rows and the window, which starts in the future, has none
C16_Witness ==
    /\ StatsReply
    /\ reply.since > now
    /\ Len(readings) = 6
    /\ reply.body.count = 0
    /\ reply.body.max_co2 = None

----------------------------------------------------------------------------
(* Vocabulary of the sampling properties *)

\* the plausible range of each sensor field
PlausibleRange ==
    [co2_ppm |-> [lo |-> 300, hi |-> 10000],
     temperature_c |-> [lo |-> 0, hi |-> 50],
     humidity |-> [lo |-> 0, hi |-> 100]]

Plausible(f, v) ==
    v = None \/ (PlausibleRange[f].lo <= Val(v) /\ Val(v) <= PlausibleRange[f].hi)

\* the sampling thread is between save_reading and the end of
\* update_latest_reading
InUpdate == worker.pc \in {"merge", "check_and_notify", "emit"}

\* a decoder result that carries a value for some sensor field
HasSensorValue(result) ==
    /\ result # None
    /\ \E f \in DOMAIN Val(result) \cap SensorFields : Val(result)[f] # None

(* C17: every stored row and latest_reading hold, per sensor field, null or  *)
(* a value within the plausible range, and check_and_notify is never handed  *)
(* a value outside it.                                                       *)
C17_PlausibleRange ==
    /\ \A i \in DOMAIN readings : \A f \in SensorFields : Plausible(f, readings[i][f])
    /\ \A f \in SensorFields : Plausible(f, latest_reading[f])
    /\ call.op = "check_and_notify" => \A f \in SensorFields : Plausible(f, call.p[f])

(* C18: the row stored for a decoded reading holds null in exactly the       *)
(* sensor fields whose decoded value is outside the plausible range and the  *)
(* decoded value in every other field, and so does the merge.                *)
C18_PerFieldRejection ==
    /\ (InUpdate /\ worker.row \in DOMAIN readings) =>
          \A f \in SensorFields :
             readings[worker.row][f] =
                IF Plausible(f, worker.p[f]) THEN worker.p[f] ELSE None
    /\ worker.pc \in {"check_and_notify", "emit"} =>
          \A f \in SensorFields :
             latest_reading[f] =
                IF Plausible(f, worker.p[f]) /\ worker.p[f] # None THEN worker.p[f]
                ELSE worker.before[f]

(* C19: when the merge of a cycle starts, the row of its reading is in the   *)
(* table; when check_and_notify is called, the row is in the table and       *)
(* latest_reading holds the finished merge; and check_and_notify is called   *)
(* at no other point of the sampling thread.                                 *)
C19_CycleOrdering ==
    [][ /\ worker'.pc \in {"merge", "check_and_notify", "emit"} =>
              /\ worker'.row \in DOMAIN readings'
              /\ \A f \in ReadingFields : readings'[worker'.row][f] = worker'.p[f]
        /\ worker'.pc \in {"check_and_notify", "emit"} =>
              /\ \A f \in ReadingFields :
                    latest_reading'[f] = IF worker'.p[f] # None THEN worker'.p[f]
                                         ELSE worker'.before[f]
              /\ latest_reading'.timestamp # None
        /\ (call' # call /\ call'.op = "check_and_notify") =>
              /\ worker.pc = "check_and_notify"
              /\ call'.p = [m \in Metrics |-> worker.p[m]]
        /\ (latest_reading' # latest_reading) => worker.pc = "merge"
    ]_vars

\* the alert for a reading has been sent; its row is stored and merged
C19_Witness ==
    /\ worker.pc = "emit"
    /\ call.op = "check_and_notify"
    /\ call.sent # << >>
    /\ worker.row = 2
    /\ readings[2].co2_ppm = Some(1200)
    /\ latest_reading.co2_ppm = Some(1200)

(* C20: a sampling cycle goes on to append a row and update latest_reading   *)
(* exactly when the decoder returned a reading with a non-null value for     *)
(* co2_ppm, temperature_c or humidity; every other cycle appends nothing and *)
(* leaves latest_reading unchanged.                                          *)
C20_AppendCondition ==
    [][ /\ call'.op = "discover" =>
              (worker'.pc = "save_reading" <=> HasSensorValue(call'.result))
        /\ (readings' # readings \/ latest_reading' # latest_reading) =>
              /\ worker.pc \in {"save_reading", "merge"}
              /\ \E f \in SensorFields : worker.p[f] # None
    ]_vars


----------------------------------------------------------------------------
(* C21: alert evaluation sees the merged snapshot.  In every call of         *)
(* update_latest_reading with alerts active, each metric whose value in      *)
(* latest_reading after the merge violates its enabled bound, and whose      *)
(* cooldown has run out, is named in a notification of that call, also when  *)
(* the reading of the call did not carry the metric.  Stated for a           *)
(* configuration whose last_notification is a map.                           *)
C21_MergedSnapshotEvaluated ==
    [][(/\ call'.op = "update_latest_reading"
        /\ PersistedConfig.last_notification # JNull
        /\ Active(PersistedConfig)) =>
          \A m \in Metrics :
             (/\ Violates(m, latest_reading'[m], PersistedConfig)
              /\ CooledDown(m, PersistedConfig, now))
                => NotifiedIn(call', m)
    ]_vars


----------------------------------------------------------------------------
(* app.py: the loop of monitor_myco2_async with the failures of its steps   *)
(* and with its running flag.  Every step of a cycle sits inside the "try"  *)
(* of line 491; "except Exception" of line 638 waits and lets the loop go   *)
(* on.                                                                      *)

\* variant: an exception of the scan ends the thread
DiscoverFails_fatal ==
    /\ worker.pc = "discover"
    /\ worker' = Exited
    /\ call' = [op |-> "except", at |-> "discover"]
    /\ UNCHANGED <<now, file, mtime, cache, cacheMtime, latest_reading, lastSend,
                   readings, reply, monitoring_active, request, parked>>

\* variant: an exception of the scan is followed by the next scan at once
DiscoverFails_nowait ==
    /\ worker.pc = "discover"
    /\ worker' = Scanning
    /\ call' = [op |-> "except", at |-> "discover"]
    /\ UNCHANGED <<now, file, mtime, cache, cacheMtime, latest_reading, lastSend,
                   readings, reply, monitoring_active, request, parked>>

\* lines 493-515 raise: BleakScanner.discover, the device loop, the read of
\* the host metrics.  parse_with_sensirion_ble catches its own exceptions and
\* returns None, which Discover covers
DiscoverFails ==
    /\ worker.pc = "discover"
    /\ worker' = [pc |-> "sleep", line |-> 639]
    /\ call' = [op |-> "except", at |-> "discover"]
    /\ UNCHANGED <<now, file, mtime, cache, cacheMtime, latest_reading, lastSend,
                   readings, reply, monitoring_active, request, parked>>

\* line 312 raises: socketio.emit is outside the try of update_latest_reading,
\* so the exception reaches line 638
EmitFails ==
    /\ worker.pc = "emit"
    /\ worker' = [pc |-> "sleep", line |-> 639]
    /\ call' = [op |-> "except", at |-> "emit"]
    /\ UNCHANGED <<now, file, mtime, cache, cacheMtime, latest_reading, lastSend,
                   readings, reply, monitoring_active, request, parked>>

\* the running flag is cleared.  No handler of app.py assigns the flag after
\* start_monitoring set it; the step is an assignment to the module global
\* app.monitoring_active by the code that embeds the module
StopMonitoring ==
    /\ monitoring_active
    /\ monitoring_active' = FALSE
    /\ UNCHANGED <<now, file, mtime, cache, cacheMtime, latest_reading, lastSend,
                   call, readings, reply, worker, request, parked>>

\* the steps of the sampling thread other than the alert evaluation
PlainStep ==
    \/ \E adv \in Advertisements : \E update \in DecoderUpdates :
          \E metrics \in HostMetrics : Discover(adv, update, metrics)
    \/ DiscoverFails
    \/ \E stored \in BOOLEAN : SaveReading(stored)
    \/ MergeStep
    \/ Emit
    \/ EmitFails
    \/ Sleep

\* the alert evaluation of the sampling thread
NotifyStep == \E delivered \in BOOLEAN : Notify(delivered)

\* the steps of the sampling thread
WorkerStep == PlainStep \/ NotifyStep

InitLoop ==
    /\ now = 0
    /\ file \in {JsonDump(ActiveFile), JsonDump(NullStateFile)}
    /\ mtime = Some(0)
    /\ cache = None
    /\ cacheMtime = None
    /\ latest_reading = InitialLatest
    /\ lastSend = [m \in Metrics |-> None]
    /\ call = Idle
    /\ readings = << >>
    /\ reply = None
    /\ worker = Scanning
    /\ monitoring_active = TRUE
    /\ request = None
    /\ parked = << >>

NextLoop ==
    \/ WorkerStep
    \/ StopMonitoring
    \/ \E t \in Instants : Tick(t - now)

\* every step of the thread returns (the scan and the HTTP post carry a
\* timeout), so the thread keeps taking steps until it has exited: weak
\* fairness of its steps.  For the alert evaluation WF_vars(NotifyStep) is
\* written out, with ENABLED NotifyStep as the state predicate it equals
SpecLoop ==
    /\ InitLoop
    /\ [][NextLoop]_vars
    /\ WF_vars(PlainStep)
    /\ ([]<>(worker.pc # "check_and_notify") \/ []<><<NotifyStep>>_vars)


----------------------------------------------------------------------------
(* Vocabulary of the loop properties *)

\* this step of the thread is one in which the named call raised
RaisedIn(at) ==
    CASE at = "discover" -> worker.pc = "discover" /\ call' = [op |-> "except", at |-> "discover"]
      [] at = "save_reading" -> worker.pc = "save_reading" /\ worker'.pc # "save_reading"
                                  /\ call' = [op |-> "save_reading", stored |-> FALSE]
      [] at = "check_and_notify" ->
            /\ worker.pc = "check_and_notify" /\ worker'.pc # "check_and_notify"
            /\ RaisesInEvaluation([m \in Metrics |-> worker.p[m]], PersistedConfig)
      [] at = "emit" -> worker.pc = "emit" /\ call' = [op |-> "except", at |-> "emit"]

\* the steps of a cycle that can raise
Raisers == {"discover", "save_reading", "check_and_notify", "emit"}

----------------------------------------------------------------------------
(* C22: no exception of a cycle ends the sampling thread.  A step in which   *)
(* the scan, the decoder, save_reading or the broadcast raised leads to the  *)
(* wait, and one in which check_and_notify raised leads on to the broadcast; *)
(* the thread ends only at the loop condition with the flag cleared; every   *)
(* cycle reaches its wait, and every wait is followed by a further scan      *)
(* unless the flag has been cleared.                                         *)
C22_LoopSurvivesFailure ==
    /\ [][/\ \A at \in Raisers \ {"check_and_notify"} : RaisedIn(at) => worker'.pc = "sleep"
          /\ RaisedIn("check_and_notify") => worker'.pc = "emit"
          /\ worker'.pc = "exited" =>
                (worker.pc \in {"sleep", "exited"} /\ ~monitoring_active)
       ]_vars
    /\ [](worker.pc # "exited" => <>(worker.pc = "sleep"))
    /\ [](worker.pc = "sleep" => <>(worker.pc = "discover" \/ ~monitoring_active))

\* a scan under way after a cycle in which check_and_notify raised and the row
\* of that cycle was stored
C22_Witness ==
    /\ worker.pc = "discover"
    /\ monitoring_active
    /\ call = [op |-> "sleep", seconds |-> SleepSeconds, line |-> 636]
    /\ PersistedConfig.last_notification = JNull
    /\ latest_reading["co2_ppm"] = Some(1200)
    /\ Len(readings) = 1


----------------------------------------------------------------------------
(* C23: between two consecutive scans of the loop there is exactly one wait  *)
(* of 5 seconds, whether the earlier cycle stored a reading, had no data or  *)
(* was left by an exception: a scan is entered only by a wait of 5 seconds,  *)
(* a scan step leads to save_reading or to the wait and never to a further   *)
(* scan, and a wait is followed by the loop condition, not by a second wait. *)
C23_FixedWait ==
    [][/\ (worker'.pc = "discover" /\ worker.pc # "discover") =>
             /\ worker.pc = "sleep"
             /\ call'.op = "sleep"
             /\ call'.seconds = 5
       /\ (worker.pc = "discover" /\ call' # call /\ call'.op \in {"discover", "except"}) =>
             worker'.pc \in {"save_reading", "sleep"}
       /\ (worker.pc = "sleep" /\ worker' # worker) =>
             (call'.op = "sleep" /\ worker'.pc \in {"discover", "exited"})
    ]_vars

\* a scan entered by the wait of the except clause
C23_Witness ==
    /\ worker.pc = "discover"
    /\ call = [op |-> "sleep", seconds |-> 5, line |-> 639]
    /\ monitoring_active


----------------------------------------------------------------------------
(* C24: cooperative termination.  Once monitoring_active is false (nothing   *)
(* in the loop sets it again) the sampling thread eventually exits; the      *)
(* cycle in flight is not aborted: until its wait is over the thread takes   *)
(* the same steps as with the flag set; the first loop condition after the   *)
(* clearing ends the thread, which then starts no further cycle.             *)
C24_CooperativeTermination ==
    /\ [](~monitoring_active => <>(worker.pc = "exited"))
    /\ [][/\ ~monitoring_active => ~monitoring_active'
          /\ (worker.pc \notin {"sleep", "exited"} /\ worker' # worker) =>
                worker'.pc \notin {"exited", "discover"}
          /\ (~monitoring_active /\ worker.pc = "sleep" /\ worker' # worker) =>
                worker' = Exited
          /\ worker.pc = "exited" => worker' = worker
       ]_vars

\* the thread has exited with the flag cleared, after a cycle that stored its
\* row, made its broadcast and took its wait of line 636
C24_Witness ==
    /\ worker.pc = "exited"
    /\ ~monitoring_active
    /\ Len(readings) = 1
    /\ latest_reading["co2_ppm"] = Some(1200)
    /\ call = [op |-> "sleep", seconds |-> 5, line |-> 636]


----------------------------------------------------------------------------
(* C25: the effect of one cycle.  When check_and_notify of a cycle has run   *)
(* with alerts active and the decoded reading violates the enabled bound of  *)
(* a metric that has no last_notification, the table holds exactly one row   *)
(* of this cycle, the last one, with the values of the reading,              *)
(* latest_reading carries the values, and the Notifier was invoked exactly   *)
(* once, with a message that names the metric.  The table grows only in the  *)
(* save_reading step of a cycle, by one row.                                 *)
C25_CycleEffect ==
    [][/\ \A m \in Metrics :
            (/\ worker.pc = "check_and_notify"
             /\ worker'.pc = "emit"
             /\ Active(PersistedConfig)
             /\ Violates(m, worker.p[m], PersistedConfig)
             /\ PersistedLast(m) = None) =>
                /\ call'.op = "check_and_notify"
                /\ Len(call'.sent) = 1
                /\ Names(call'.sent[1], m)
                /\ worker.row = Len(readings')
                /\ \A f \in ReadingFields : readings'[worker.row][f] = worker.p[f]
                /\ \A f \in ReadingFields :
                      worker.p[f] # None => latest_reading'[f] = worker.p[f]
       /\ Len(readings') # Len(readings) =>
                /\ worker.pc = "save_reading"
                /\ worker'.pc = "merge"
                /\ Len(readings') = Len(readings) + 1
    ]_vars

\* the cycle of the reading co2 1200 after its check_and_notify: one row, the
\* value in latest_reading, one message naming co2_ppm
C25_Witness ==
    /\ worker.pc = "emit"
    /\ call.op = "check_and_notify"
    /\ call.p["co2_ppm"] = Some(1200)
    /\ Len(call.sent) = 1
    /\ Names(call.sent[1], "co2_ppm")
    /\ Len(readings) = 1
    /\ readings[1]["co2_ppm"] = Some(1200)
    /\ latest_reading["co2_ppm"] = Some(1200)


----------------------------------------------------------------------------
(* C26: save_reading never fails silently.  A save_reading that could not    *)
(* insert leaves the table exactly as it was and its exception leaves the    *)
(* cycle: the thread goes to the wait of the except clause, and neither      *)
(* merge nor alert evaluation follows.  A save_reading that returned has     *)
(* added exactly one row, at the end, with the timestamp of the call, the    *)
(* raw data and the fields it was given; the rows before it are untouched.   *)
C26_AppendNeverSilent ==
    [][(worker.pc = "save_reading" /\ worker' # worker) =>
          /\ call'.op = "save_reading"
          /\ ~call'.stored =>
                /\ readings' = readings
                /\ worker' = [pc |-> "sleep", line |-> 639]
          /\ call'.stored =>
                /\ worker'.pc = "merge"
                /\ Len(readings') = Len(readings) + 1
                /\ SubSeq(readings', 1, Len(readings)) = readings
                /\ \A f \in ReadingFields : readings'[Len(readings')][f] = worker.p[f]
                /\ readings'[Len(readings')].timestamp = IsoFormat(now)
                /\ readings'[Len(readings')].raw_data = worker.raw_data
    ]_vars

\* a save_reading that raised after an earlier one had stored a row: the
\* table still holds that one row and the thread is at the wait
C26_Witness ==
    /\ call = [op |-> "save_reading", stored |-> FALSE]
    /\ worker = [pc |-> "sleep", line |-> 639]
    /\ Len(readings) = 1


----------------------------------------------------------------------------
(* Vocabulary of the configuration properties *)

\* a JSON scalar that is not a number: a string with a character that is no
\* digit, sign or blank
NonNumeric(j) ==
    j.t = "str" /\ \E i \in DOMAIN j.v : ~IsDigit(j.v[i]) /\ j.v[i] \notin {" ", "-"}

\* a request without a body, or with a min, max or cooldown_minutes that is
\* not a number
MalformedPatch(data) ==
    \/ data = None
    \/ /\ "thresholds" \in DOMAIN Val(data)
       /\ \E s \in DOMAIN Val(data).thresholds :
             \E k \in {"min", "max", "cooldown_minutes"} \cap DOMAIN Val(data).thresholds[s] :
                NonNumeric(Val(data).thresholds[s][k])

\* the configuration load_config hands out in the current state
ServedConfig == load_config(Disk, now, "ok").config

----------------------------------------------------------------------------
----------------------------------------------------------------------------
(* The configuration endpoint alone, from the default configuration, with   *)
(* patches of one threshold's enabled flag and cooldown_minutes             *)

\* the cooldown_minutes a request carries
CooldownInputs == <<JNum(15), JNum(0), JNum(0 - 5), JStr(<<"0">>)>>

\* {"thresholds": {sensor_type: {"enabled": ..., "cooldown_minutes": ...}}}
CooldownPatch(sensor_type, enabled, cooldown) ==
    Some([thresholds |-> [s \in {sensor_type} |->
                            [enabled |-> JBool(enabled), cooldown_minutes |-> cooldown]]])

\* no config file yet: load_config starts from DEFAULT_CONFIG
InitConfig ==
    /\ now = 0
    /\ file = Missing
    /\ mtime = None
    /\ cache = None
    /\ cacheMtime = None
    /\ latest_reading = InitialLatest
    /\ lastSend = [m \in Metrics |-> None]
    /\ call = Idle
    /\ readings = << >>
    /\ reply = None
    /\ worker = Scanning
    /\ monitoring_active = TRUE
    /\ request = None
    /\ parked = << >>

NextConfig ==
    \/ \E m \in Metrics : \E enabled \in BOOLEAN : \E i \in DOMAIN CooldownInputs :
          api_telegram_config_set(CooldownPatch(m, enabled, CooldownInputs[i]), "ok", "ok")
    \/ api_telegram_config_set(Patches[5], "ok", "ok")
    \/ Restart

SpecConfig == InitConfig /\ [][NextConfig]_vars

----------------------------------------------------------------------------
(* C28: in every state reached from the default configuration by patches of  *)
(* the configuration endpoint, every enabled metric of the persisted         *)
(* configuration has cooldown_minutes > 0.                                   *)
C28_PositiveCooldown ==
    \A m \in Metrics :
       PersistedConfig.thresholds[m].enabled =>
          PersistedConfig.thresholds[m].cooldown_minutes > 0


----------------------------------------------------------------------------
(* app.py: POST /api/telegram/config on a request thread, statement by      *)
(* statement, next to check_and_notify on the sampling thread.  Neither     *)
(* app.py nor telegram_notifier.py takes a lock, so the sampling thread can *)
(* run between the load_config and the save_config of the handler.          *)

\* lines 756-778: get_json, load_config and the updates of the loaded copy
ConfigSetLoad(data) ==
    LET loaded == load_config(Disk, now, "ok")
        patch == ApplyPatch(loaded.config, data)
    IN  /\ TELEGRAM_AVAILABLE
        /\ request = None
        /\ file' = loaded.disk.file
        /\ mtime' = loaded.disk.mtime
        /\ cache' = loaded.disk.cache
        /\ cacheMtime' = loaded.disk.cacheMtime
        /\ request' = IF patch.ok THEN Some([pc |-> "save_config", config |-> patch.config])
                      ELSE None
        /\ call' = IF patch.ok THEN [op |-> "load_config"]
                   ELSE [op |-> "api_telegram_config_set", status |-> 500]
        /\ UNCHANGED <<now, latest_reading, lastSend, readings, reply, worker,
                       monitoring_active, parked>>

\* lines 780-785: save_config of the patched copy and the answer
ConfigSetSave ==
    /\ request # None
    /\ LET saved == save_config(Val(request).config, Disk, now, "ok")
       IN  /\ file' = saved.disk.file
           /\ mtime' = saved.disk.mtime
           /\ cache' = saved.disk.cache
           /\ cacheMtime' = saved.disk.cacheMtime
           /\ call' = [op |-> "api_telegram_config_set",
                       status |-> IF saved.ok THEN 200 ELSE 500]
    /\ request' = None
    /\ UNCHANGED <<now, latest_reading, lastSend, readings, reply, worker,
                   monitoring_active, parked>>

\* the readings the sampling thread evaluates next to the handler
RaceReadings == {NoReading, [NoReading EXCEPT !.co2_ppm = Some(1200)]}

InitRace ==
    /\ now = 0
    /\ file = JsonDump(ActiveFile)
    /\ mtime = Some(0)
    /\ cache = None
    /\ cacheMtime = None
    /\ latest_reading = InitialLatest
    /\ lastSend = [m \in Metrics |-> None]
    /\ call = Idle
    /\ readings = << >>
    /\ reply = None
    /\ worker = Scanning
    /\ monitoring_active = TRUE
    /\ request = None
    /\ parked = << >>

NextRace ==
    \/ \E i \in 1..5 : ConfigSetLoad(Patches[i])
    \/ ConfigSetSave
    \/ \E p \in RaceReadings : CheckAndNotify(p, "ok", TRUE)
    \/ \E t \in Instants : Tick(t - now)

SpecRace == InitRace /\ [][NextRace]_vars

----------------------------------------------------------------------------
(* C29: the last_notification written by an alert evaluation survives a      *)
(* concurrent configuration edit.  Whenever no request is in flight, the     *)
(* persisted last_notification of a metric is the time of the newest         *)
(* delivered notification that named it.                                     *)
C29_StampSurvivesEdit ==
    \A m \in Metrics :
       (request = None /\ lastSend[m] # None /\ Val(lastSend[m]).ok) =>
          PersistedLast(m) = Some(Val(lastSend[m]).time)


----------------------------------------------------------------------------
(* The readings table under every operation that opens the database: the    *)
(* sampling thread with a save_reading that can fail, GET /api/history and  *)
(* GET /api/stats, next to the configuration endpoint and the clock         *)

\* what the decoder hands back in the cycles next to the queries
StoreUpdates ==
    { None,
      Some([carbon_dioxide |-> Some(1200), temperature |-> Some(22),
            humidity |-> Some(40)]) }

NextStore ==
    \/ \E update \in StoreUpdates : \E metrics \in HostMetrics :
          Discover([ManufacturerData |-> Some("06d5"), RSSI |-> -60], update, metrics)
    \/ \E stored \in BOOLEAN : SaveReading(stored)
    \/ MergeStep
    \/ Notify(TRUE)
    \/ Emit
    \/ Sleep
    \/ api_history(None, Some(<<"1">>))
    \/ api_stats
    \/ api_telegram_config_set(Patches[2], "ok", "ok")
    \/ \E t \in Instants : Tick(t - now)

SpecStore == InitSampling /\ [][NextStore]_vars

----------------------------------------------------------------------------
(* C30: the readings table is append-only.  In every step the rows after the *)
(* step begin with the rows before it, unchanged and in the same order, so   *)
(* no operation deletes or modifies a row; a step that answers a history or  *)
(* statistics query, like every step other than the save_reading of the      *)
(* sampling thread, leaves the table as it is.                               *)
C30_AppendOnlyStore ==
    [][/\ Len(readings') >= Len(readings)
       /\ SubSeq(readings', 1, Len(readings)) = readings
       /\ reply' # reply => readings' = readings
       /\ readings' # readings => worker.pc = "save_reading"
    ]_vars

\* a history query answered from a table of two rows, the first of which is
\* still the row of the first cycle
C30_Witness ==
    /\ Len(readings) = 2
    /\ readings[1].timestamp = IsoFormat(0)
    /\ readings[2].timestamp # IsoFormat(0)
    /\ reply # None
    /\ reply.op = "api_history"
    /\ Len(reply.body) = 1


----------------------------------------------------------------------------
(* C31: the two history implementations agree.  What GET /api/history of     *)
(* app.py answers for a window and a max_points >= 0 is what fetch_history   *)
(* of services/storage.py returns for the same table, since and max_points.  *)
C31_HistoryImplementationsAgree ==
    (HistoryReply /\ reply.op = "api_history" /\ reply.max_points >= 0) =>
        reply.body = fetch_history(readings, IsoFormat(reply.since), reply.max_points)


\* the place of a returned row in the ascending matching rows (the rows of
\* the table carry distinct timestamps)
PositionIn(data, row) == CHOOSE i \in DOMAIN data : data[i] = row

(* C32: size and distinctness of a downsample.  A history query with         *)
(* max_points > 0 over N > max_points matching rows returns exactly          *)
(* max_points rows; they are matching rows at strictly increasing places,    *)
(* the first is the oldest matching row, and for app.api_history the row at  *)
(* place k is the one at index floor(k * N / max_points) without the clamp   *)
(* min(idx, N - 1), which never changes an index.                            *)
C32_DownsampleSize ==
    HistoryReply =>
        LET data == MatchingRows(reply.since)
            N == Len(data)
        IN  (reply.max_points > 0 /\ N > reply.max_points) =>
               /\ Len(reply.body) = reply.max_points
               /\ \A k \in DOMAIN reply.body : \E i \in DOMAIN data : reply.body[k] = data[i]
               /\ reply.body[1] = data[1]
               /\ \A j, k \in DOMAIN reply.body :
                     j < k => PositionIn(data, reply.body[j]) < PositionIn(data, reply.body[k])
               /\ reply.op = "api_history" =>
                     \A k \in DOMAIN reply.body :
                        /\ ((k - 1) * N) \div reply.max_points < N
                        /\ reply.body[k] = data[((k - 1) * N) \div reply.max_points + 1]

\* api_history asked for two of five matching rows and returned the rows at
\* indices 0 and 2
C32_Witness ==
    /\ HistoryReply
    /\ reply.op = "api_history"
    /\ reply.max_points = 2
    /\ Len(MatchingRows(reply.since)) = 5
    /\ Len(reply.body) = 2
    /\ reply.body[2] = MatchingRows(reply.since)[3]


----------------------------------------------------------------------------
(* telegram_notifier.check_and_notify on the sampling thread, split between *)
(* its load_config and its update_last_notifications, next to the handler   *)
(* of POST /api/telegram/config split as above                              *)

\* lines 207-236: load_config and the notifications list; an evaluation that
\* has nothing to send returns here
EvalLoad(p) ==
    LET loaded == load_config(Disk, now, "ok")
        config == loaded.config
        active == /\ Get(config, "enabled", FALSE)
                  /\ Get(config, "bot_token", EmptyStr) # EmptyStr
                  /\ Get(config, "chat_id", EmptyStr) # EmptyStr
        notifications == IF active THEN CollectNotifications(1, p, config, now) ELSE << >>
    IN  /\ worker = Scanning
        /\ file' = loaded.disk.file
        /\ mtime' = loaded.disk.mtime
        /\ cache' = loaded.disk.cache
        /\ cacheMtime' = loaded.disk.cacheMtime
        /\ worker' = IF notifications = << >> THEN Scanning
                     ELSE [pc |-> "update_last_notifications", p |-> p,
                           config |-> config, notifications |-> notifications]
        /\ call' = [op |-> "load_config"]
        /\ UNCHANGED <<now, latest_reading, lastSend, readings, reply,
                       monitoring_active, request, parked>>

\* lines 239-253: update_last_notifications saves the configuration loaded
\* in line 207 with the new timestamps, then the message is sent
EvalSave ==
    /\ worker.pc = "update_last_notifications"
    /\ LET saved == update_last_notifications(SensorsOf(worker.notifications),
                                              worker.config, Disk, now, "ok")
           sent == BatchMessages(worker.notifications, now)
           results == [i \in DOMAIN sent |->
                         send_telegram_message(worker.config.bot_token,
                                               worker.config.chat_id, sent[i], TRUE)]
       IN  /\ file' = saved.disk.file
           /\ mtime' = saved.disk.mtime
           /\ cache' = saved.disk.cache
           /\ cacheMtime' = saved.disk.cacheMtime
           /\ lastSend' = RecordSends(lastSend, sent, results, now)
           /\ call' = [op |-> "check_and_notify", p |-> worker.p, time |-> now,
                       cold |-> FALSE,
                       notifications |-> worker.notifications, sent |-> sent,
                       saved |-> Some(saved.ok), results |-> results]
    /\ worker' = Scanning
    /\ UNCHANGED <<now, latest_reading, readings, reply, monitoring_active, request, parked>>

NextEdit ==
    \/ \E i \in 1..5 : ConfigSetLoad(Patches[i])
    \/ ConfigSetSave
    \/ \E p \in RaceReadings : EvalLoad(p)
    \/ EvalSave
    \/ \E t \in Instants : Tick(t - now)

SpecEdit == InitRace /\ [][NextEdit]_vars

----------------------------------------------------------------------------
(* Vocabulary of the configuration properties *)

\* the fields of a configuration that the endpoint sets: everything but
\* last_notification
Settings(config) == [k \in DOMAIN config \ {"last_notification"} |-> config[k]]

----------------------------------------------------------------------------
(* C34: no lost configuration update.  The save of an alert evaluation       *)
(* leaves the persisted enabled flags, credentials, bounds and               *)
(* cooldown_minutes as it finds them, so a patch the endpoint has answered   *)
(* as saved is still in the file when both operations have completed.        *)
C34_NoLostConfigUpdate ==
    [][(worker.pc = "update_last_notifications" /\ worker'.pc = "discover") =>
          Settings(PersistedConfig') = Settings(PersistedConfig)
    ]_vars


----------------------------------------------------------------------------
(* telegram_notifier.py: load_config and save_config statement by statement *)
(* on two threads, the sampling worker (check_and_notify) and a request     *)
(* thread (POST /api/telegram/config).  The module globals _CONFIG_CACHE    *)
(* and _CONFIG_MTIME are shared and no lock is taken.  A thread at rest is  *)
(* worker = Scanning, request = None; otherwise the variable holds the      *)
(* frame of the call the thread is in.                                      *)

Threads == {"worker", "request"}

AtRest(th) == IF th = "worker" THEN worker = Scanning ELSE request = None

Frame(th) == IF th = "worker" THEN worker ELSE Val(request)

At(th, pc) == ~AtRest(th) /\ Frame(th).pc = pc

Goto(th, frame) ==
    IF th = "worker" THEN worker' = frame /\ UNCHANGED request
    ELSE request' = Some(frame) /\ UNCHANGED worker

Return(th) ==
    IF th = "worker" THEN worker' = Scanning /\ UNCHANGED request
    ELSE request' = None /\ UNCHANGED worker

\* load_config, lines 70-74 and 87: exists(), stat() and the cache test
LoadConfigStat(th) ==
    /\ AtRest(th)
    /\ IF file.kind = "missing"
       THEN Goto(th, [pc |-> "save_config", config |-> DEFAULT_CONFIG])
       ELSE IF cache # None /\ cacheMtime = mtime
       THEN Goto(th, [pc |-> "loaded", config |-> Val(cache)])
       ELSE Goto(th, [pc |-> "json.load", current_mtime |-> mtime])
    /\ call' = [op |-> "load_config", thread |-> th]
    /\ UNCHANGED <<now, file, mtime, cache, cacheMtime, latest_reading, lastSend,
                   readings, reply, monitoring_active, parked>>

\* load_config, lines 76-78 and 82-84: open, json.load and the merge
LoadConfigRead(th) ==
    /\ At(th, "json.load")
    /\ LET parsed == JsonLoads(file)
       IN  IF parsed.ok
           THEN Goto(th, [pc |-> "store", current_mtime |-> Frame(th).current_mtime,
                          merged_config |-> _merge_with_default_config(parsed.body)])
           ELSE Goto(th, [pc |-> "loaded", config |-> DEFAULT_CONFIG])
    /\ call' = [op |-> "json.load", thread |-> th]
    /\ UNCHANGED <<now, file, mtime, cache, cacheMtime, latest_reading, lastSend,
                   readings, reply, monitoring_active, parked>>

\* load_config, lines 79-81: the globals are set from the locals
LoadConfigStore(th) ==
    /\ At(th, "store")
    /\ cache' = Some(Frame(th).merged_config)
    /\ cacheMtime' = Frame(th).current_mtime
    /\ Goto(th, [pc |-> "loaded", config |-> Frame(th).merged_config])
    /\ call' = [op |-> "store", thread |-> th]
    /\ UNCHANGED <<now, file, mtime, latest_reading, lastSend, readings, reply,
                   monitoring_active, parked>>

\* what the caller saves after load_config has returned: the worker the
\* loaded configuration with a new co2_ppm timestamp
\* (update_last_notifications), the request thread the loaded configuration
\* with the posted form applied (api_telegram_config_set)
SavedBy(th, config) ==
    IF th = "worker" THEN {StampLastNotifications({"co2_ppm"}, config, now)}
    ELSE {ApplyPatch(config, Patches[i]).config : i \in {1, 2}}

\* the caller goes on without saving: an evaluation with nothing to notify,
\* GET /api/telegram/config
CallerReturns(th) ==
    /\ At(th, "loaded")
    /\ Return(th)
    /\ call' = [op |-> "return", thread |-> th]
    /\ UNCHANGED <<now, file, mtime, cache, cacheMtime, latest_reading, lastSend,
                   readings, reply, monitoring_active, parked>>

\* the caller calls save_config
CallerSaves(th) ==
    /\ At(th, "loaded")
    /\ \E config \in SavedBy(th, Frame(th).config) :
          Goto(th, [pc |-> "save_config", config |-> config])
    /\ call' = [op |-> "save_config", thread |-> th]
    /\ UNCHANGED <<now, file, mtime, cache, cacheMtime, latest_reading, lastSend,
                   readings, reply, monitoring_active, parked>>

\* save_config, lines 95-96: open(CONFIG_FILE, 'w'), json.dump and close.
\* The write lands at an instant later than the file's mtime: the file
\* system's timestamps tell any two writes apart.
SaveConfigWrite(th) ==
    /\ At(th, "save_config")
    /\ mtime # Some(now)
    /\ file' = JsonDump(Frame(th).config)
    /\ mtime' = Some(now)
    /\ Goto(th, [pc |-> "_CONFIG_CACHE", config |-> Frame(th).config])
    /\ call' = [op |-> "json.dump", thread |-> th]
    /\ UNCHANGED <<now, cache, cacheMtime, latest_reading, lastSend, readings,
                   reply, monitoring_active, parked>>

\* save_config, lines 97-99: the globals are set, _CONFIG_MTIME from a
\* stat() of the file as it is now
SaveConfigCache(th) ==
    /\ At(th, "_CONFIG_CACHE")
    /\ cache' = Some(_merge_with_default_config(Frame(th).config))
    /\ cacheMtime' = mtime
    /\ Return(th)
    /\ call' = [op |-> "save_config", thread |-> th, ok |-> TRUE]
    /\ UNCHANGED <<now, file, mtime, latest_reading, lastSend, readings, reply,
                   monitoring_active, parked>>

NextCache ==
    \/ \E th \in Threads : LoadConfigStat(th)
    \/ \E th \in Threads : LoadConfigRead(th)
    \/ \E th \in Threads : LoadConfigStore(th)
    \/ \E th \in Threads : CallerReturns(th)
    \/ \E th \in Threads : CallerSaves(th)
    \/ \E th \in Threads : SaveConfigWrite(th)
    \/ \E th \in Threads : SaveConfigCache(th)
    \/ \E t \in Instants : Tick(t - now)

SpecCache == InitRace /\ [][NextCache]_vars

----------------------------------------------------------------------------
(* C35: config cache coherence.  Whenever no load_config or save_config is  *)
(* in progress on either thread, a load_config returns the merge with the   *)
(* defaults of the configuration that is in the file.                       *)
C35_CacheCoherent ==
    (AtRest("worker") /\ AtRest("request") /\ file.kind = "json") =>
        load_config(Disk, now, "ok").config = _merge_with_default_config(file.body)


----------------------------------------------------------------------------
(* Alert evaluations of readings that violate several bounds at once, next  *)
(* to configuration requests that switch alerts or one metric off           *)

NextCooldown ==
    \/ \E p \in SensorReadings : \E delivered \in BOOLEAN :
          CheckAndNotify(p, "ok", delivered)
    \/ \E i \in {2, 4} : api_telegram_config_set(Patches[i], "ok", "ok")
    \/ \E t \in Instants : Tick(t - now)

SpecCooldown == InitRace /\ [][NextCooldown]_vars

----------------------------------------------------------------------------
(* C36: per-metric cooldown independence.  An alert evaluation leaves the   *)
(* persisted last_notification of every metric outside its batch of         *)
(* notifications as it was, whether that metric is violating within its     *)
(* cooldown, in bounds, disabled or absent from the reading.                *)
C36_CooldownIndependence ==
    [][call'.op = "check_and_notify" =>
          \A m \in Metrics \ SensorsOf(call'.notifications) :
             PersistedLast(m)' = PersistedLast(m)
    ]_vars

\* humidity is notified at 10 while co2_ppm, violating too, is within the
\* cooldown of its notification at 0 and keeps that timestamp
C36_Witness ==
    /\ call.op = "check_and_notify"
    /\ now = 10
    /\ call.p.co2_ppm = Some(1200)
    /\ SensorsOf(call.notifications) = {"humidity"}
    /\ PersistedLast("co2_ppm") = Some(0)
    /\ PersistedLast("humidity") = Some(10)


----------------------------------------------------------------------------
(* C37: a storage failure skips the rest of the cycle.  The save_reading    *)
(* that raised leaves latest_reading with its timestamp, the config file    *)
(* with last_notification, the notification ledger and the table as they    *)
(* were and takes the thread to the wait of the except clause without the   *)
(* reading; the only step from that wait is the end of the wait, which      *)
(* broadcasts nothing, evaluates no alert and leads to a new scan or out of *)
(* the loop.                                                                *)
C37_StorageFailureSkipsCycle ==
    [][/\ (worker.pc = "save_reading" /\ worker'.pc = "sleep") =>
             /\ call' = [op |-> "save_reading", stored |-> FALSE]
             /\ worker' = [pc |-> "sleep", line |-> 639]
             /\ latest_reading' = latest_reading
             /\ file' = file
             /\ lastSend' = lastSend
             /\ readings' = readings
       /\ (worker = [pc |-> "sleep", line |-> 639] /\ worker' # worker) =>
             /\ call'.op = "sleep"
             /\ worker' \in {Scanning, Exited}
             /\ latest_reading' = latest_reading
             /\ file' = file
             /\ lastSend' = lastSend
             /\ readings' = readings
    ]_vars

\* the cycle at 10 ended in the wait of the except clause: latest_reading
\* still carries the timestamp of the cycle at 0 and the table its one row
C37_Witness ==
    /\ call = [op |-> "sleep", seconds |-> SleepSeconds, line |-> 639]
    /\ worker = Scanning
    /\ now = 10
    /\ latest_reading.timestamp = Some(IsoFormat(0))
    /\ Len(readings) = 1


----------------------------------------------------------------------------
(* app.py: start_monitoring called again, lines 649-656, with sampling      *)
(* threads that are still in the loop.  worker is the thread started by the *)
(* latest start_monitoring, parked holds the threads started before it that *)
(* have not left the loop.                                                  *)

\* the sampling threads that may exist at once in the model
MaxThreads == 3

\* no thread has been started yet
NotStarted == [pc |-> "not_started"]

InLoop(frame) == frame.pc \notin {"not_started", "exited"}

\* lines 653-656: the test of the flag, the assignment and Thread.start();
\* the thread that was running stays in its cycle or wait
start_monitoring ==
    /\ Len(parked) + 1 < MaxThreads
    /\ IF ~monitoring_active
       THEN /\ monitoring_active' = TRUE
            /\ worker' = Scanning
            /\ parked' = IF InLoop(worker) THEN Append(parked, worker) ELSE parked
       ELSE UNCHANGED <<monitoring_active, worker, parked>>
    /\ call' = [op |-> "start_monitoring", started |-> ~monitoring_active]
    /\ UNCHANGED <<now, file, mtime, cache, cacheMtime, latest_reading, lastSend,
                   readings, reply, request>>

\* lines 493-515 and 636 on an earlier thread: a scan that finds no
\* advertisement of the sensor touches nothing shared
EarlierDiscover(i) ==
    /\ i \in DOMAIN parked
    /\ parked[i].pc = "discover"
    /\ parked' = [parked EXCEPT ![i] = [pc |-> "sleep", line |-> 636]]
    /\ call' = [op |-> "discover", result |-> None]
    /\ UNCHANGED <<now, file, mtime, cache, cacheMtime, latest_reading, lastSend,
                   readings, reply, worker, monitoring_active, request>>

\* lines 636 and 490 on an earlier thread: the end of its wait and the loop
\* condition; a thread that finds the flag cleared returns and is gone
EarlierSleep(i) ==
    /\ i \in DOMAIN parked
    /\ parked[i].pc = "sleep"
    /\ parked' = IF monitoring_active THEN [parked EXCEPT ![i] = Scanning]
                 ELSE [k \in 1..(Len(parked) - 1) |->
                          IF k < i THEN parked[k] ELSE parked[k + 1]]
    /\ call' = [op |-> "sleep", seconds |-> SleepSeconds, line |-> parked[i].line]
    /\ UNCHANGED <<now, file, mtime, cache, cacheMtime, latest_reading, lastSend,
                   readings, reply, worker, monitoring_active, request>>

InitWorkers ==
    /\ now = 0
    /\ file = JsonDump(ActiveFile)
    /\ mtime = Some(0)
    /\ cache = None
    /\ cacheMtime = None
    /\ latest_reading = InitialLatest
    /\ lastSend = [m \in Metrics |-> None]
    /\ call = Idle
    /\ readings = << >>
    /\ reply = None
    /\ worker = NotStarted
    /\ monitoring_active = FALSE
    /\ request = None
    /\ parked = << >>

\* cycles that find no advertisement of the sensor, or fail in the scan: a
\* thread is replaced while it scans or waits
NextWorkers ==
    \/ start_monitoring
    \/ StopMonitoring
    \/ \E i \in 1..MaxThreads : EarlierDiscover(i)
    \/ \E i \in 1..MaxThreads : EarlierSleep(i)
    \/ \E metrics \in HostMetrics :
          Discover([ManufacturerData |-> None, RSSI |-> -100], None, metrics)
    \/ DiscoverFails
    \/ Sleep
    \/ \E t \in Instants : Tick(t - now)

SpecWorkers == InitWorkers /\ [][NextWorkers]_vars

----------------------------------------------------------------------------
(* C38: single sampling worker.  A thread started before the latest         *)
(* start_monitoring that ends its wait leaves the loop: it does not go on   *)
(* to a further scan next to the thread that replaced it.                   *)
C38_SingleWorker ==
    [][\A i \in DOMAIN parked :
          (parked[i].pc = "sleep" /\ Len(parked') = Len(parked)) =>
             parked'[i].pc = "sleep"
    ]_vars


----------------------------------------------------------------------------
(* C39: a failed save keeps the previous configuration.  After an alert     *)
(* evaluation whose save_config returned False, load_config returns the     *)
(* configuration it would have returned before that evaluation.             *)
C39_FailedSaveKeepsConfig ==
    [][(call'.op = "check_and_notify" /\ call'.saved = Some(FALSE)) =>
          load_config(Disk', now', "ok").config = load_config(Disk, now, "ok").config
    ]_vars


----------------------------------------------------------------------------
(* telegram_notifier.py: the objects behind load_config and save_config.    *)
(* A caller holds a configuration dict; request is its frame, with the dict *)
(* as config and, as aliased, the keys under which the dict and             *)
(* _CONFIG_CACHE hold one and the same object.  load_config hands out       *)
(* deepcopy(...), lines 74 and 81.  save_config stores                      *)
(* _merge_with_default_config(config), line 97, whose                       *)
(* merged_config.update(config), line 55, puts the caller's own thresholds  *)
(* and last_notification dicts into the new cache.                          *)

\* the keys of a configuration whose values are dicts
DictKeys == {"thresholds", "last_notification"}

\* the assignments a caller makes to the dict it holds
Assignments == {"enabled", "thresholds", "last_notification"}

Assign(config, k, t) ==
    CASE k = "enabled" -> [config EXCEPT !.enabled = ~config.enabled]
      [] k = "thresholds" ->
            [config EXCEPT !.thresholds.co2_ppm.max = Some(2000)]
      [] OTHER -> StampLastNotifications({"co2_ppm"}, config, t)

\* config = load_config()
HolderLoads ==
    LET loaded == load_config(Disk, now, "ok")
    IN  /\ file' = loaded.disk.file
        /\ mtime' = loaded.disk.mtime
        /\ cache' = loaded.disk.cache
        /\ cacheMtime' = loaded.disk.cacheMtime
        /\ request' = Some([pc |-> "holding", config |-> loaded.config,
                            aliased |-> {}])
        /\ call' = [op |-> "load_config"]
        /\ UNCHANGED <<now, latest_reading, lastSend, readings, reply, worker,
                       monitoring_active, parked>>

\* config[k] = ..., config["thresholds"]["co2_ppm"]["max"] = ...: an
\* assignment inside a dict the cache shares shows in the cache
HolderAssigns(k) ==
    /\ request # None
    /\ LET config == Assign(Val(request).config, k, now)
       IN  /\ request' = Some([Val(request) EXCEPT !.config = config])
           /\ cache' = IF k \in Val(request).aliased
                       THEN Some([Val(cache) EXCEPT ![k] = config[k]])
                       ELSE cache
    /\ call' = [op |-> "assign", key |-> k]
    /\ UNCHANGED <<now, file, mtime, cacheMtime, latest_reading, lastSend,
                   readings, reply, worker, monitoring_active, parked>>

\* save_config(config), lines 95-99; the loops of lines 56-62 complete the
\* caller's thresholds dict in place
HolderSaves ==
    /\ request # None
    /\ LET config == Val(request).config
           saved == save_config(config, Disk, now, "ok")
       IN  /\ file' = saved.disk.file
           /\ mtime' = saved.disk.mtime
           /\ cache' = saved.disk.cache
           /\ cacheMtime' = saved.disk.cacheMtime
           /\ request' = Some([pc |-> "holding",
                               config |-> [config EXCEPT !.thresholds =
                                              Val(saved.disk.cache).thresholds],
                               aliased |-> DictKeys \cap DOMAIN config])
    /\ call' = [op |-> "save_config"]
    /\ UNCHANGED <<now, latest_reading, lastSend, readings, reply, worker,
                   monitoring_active, parked>>

\* the caller returns and its dict is dropped
HolderReturns ==
    /\ request # None
    /\ request' = None
    /\ call' = [op |-> "return"]
    /\ UNCHANGED <<now, file, mtime, cache, cacheMtime, latest_reading, lastSend,
                   readings, reply, worker, monitoring_active, parked>>

NextIsolation ==
    \/ HolderLoads
    \/ \E k \in Assignments : HolderAssigns(k)
    \/ HolderSaves
    \/ HolderReturns
    \/ \E t \in Instants : Tick(t - now)

SpecIsolation == InitRace /\ [][NextIsolation]_vars

----------------------------------------------------------------------------
(* C40: config cache isolation.  What load_config returns changes only in a *)
(* step that is a save_config: no assignment to a dict that load_config     *)
(* returned or that save_config was given changes it.                       *)
C40_CacheIsolation ==
    [][load_config(Disk', now', "ok").config # load_config(Disk, now, "ok").config
          => call'.op = "save_config"
    ]_vars

====
